---- MODULE Spec2Model ----
(***************************************************************************)
(* Newton-type solvers of the repository:                                  *)
(*   Gauss_Newton_Verfahren.py      gauss_newton, gauss_newton_damped      *)
(*   quadratisch_konvergentes_...   newton_method                          *)
(*   gedaempftes_newton_verfahren   damped_newton                          *)
(* Real numbers are exact rationals <<numerator, denominator>> in lowest   *)
(* terms with a positive denominator.  A norm is represented by its        *)
(* square (the square root is strictly increasing on the non-negative      *)
(* numbers, so every comparison of norms is the comparison of the squares).*)
(***************************************************************************)
EXTENDS Integers, Sequences, FiniteSets, TLC

(* ------------------------------------------------------------------ *)
(* Bounds of the model                                                *)
(* ------------------------------------------------------------------ *)
MaxIter == 2
MaxHalvingBound == 2
MaxCalls == 2
LambdaUnderflow == 3
TrialCap == 10

(* ------------------------------------------------------------------ *)
(* Exact rational arithmetic                                          *)
(* ------------------------------------------------------------------ *)
Abs(n) == IF n < 0 THEN -n ELSE n

RECURSIVE GCD(_, _)
GCD(a, b) == IF b = 0 THEN a ELSE GCD(b, a % b)

(* n / d in lowest terms, d > 0 *)
Lowest(n, d) == <<n \div GCD(Abs(n), d), d \div GCD(Abs(n), d)>>
Rat(n, d) == IF d < 0 THEN Lowest(-n, -d) ELSE Lowest(n, d)

Zero == <<0, 1>>
One == <<1, 1>>
Int2R(n) == <<n, 1>>

(* common factors are taken out before multiplying, so that the        *)
(* intermediate products stay within the integer range                 *)
RAdd(a, b) ==
  LET g == GCD(a[2], b[2])
  IN  Lowest(a[1] * (b[2] \div g) + b[1] * (a[2] \div g), (a[2] \div g) * b[2])
RNeg(a) == <<-a[1], a[2]>>
RSub(a, b) ==
  LET g == GCD(a[2], b[2])
  IN  Lowest(a[1] * (b[2] \div g) - b[1] * (a[2] \div g), (a[2] \div g) * b[2])
RMul(a, b) ==
  LET g1 == GCD(Abs(a[1]), b[2])
      g2 == GCD(Abs(b[1]), a[2])
  IN  Lowest((a[1] \div g1) * (b[1] \div g2), (a[2] \div g2) * (b[2] \div g1))
RDiv(a, b) == Rat(a[1] * b[2], a[2] * b[1])
RLt(a, b) == a[1] * b[2] < b[1] * a[2]
RAbs(a) == <<Abs(a[1]), a[2]>>

RECURSIVE RSum(_)
RSum(s) == IF s = <<>> THEN Zero ELSE RAdd(s[1], RSum(Tail(s)))

VAdd(u, v) == [i \in DOMAIN u |-> RAdd(u[i], v[i])]
VSub(u, v) == [i \in DOMAIN u |-> RSub(u[i], v[i])]
VScale(c, v) == [i \in DOMAIN v |-> RMul(c, v[i])]
VNeg(v) == [i \in DOMAIN v |-> RNeg(v[i])]

(* np.linalg.norm(v), represented by its square *)
norm(v) == RSum([i \in DOMAIN v |-> RMul(v[i], v[i])])

(* np.linalg.norm(v) < tolerance *)
NormBelow(v, tol) == RLt(Zero, tol) /\ RLt(norm(v), RMul(tol, tol))

(* sum(abs(v[i]) for i in range(2)) *)
abs_sum(v) == RSum([i \in DOMAIN v |-> RAbs(v[i])])

(* jacobi_matrix.T @ jacobi_matrix and jacobi_matrix.T @ residuals *)
Column(M, a) == [i \in DOMAIN M |-> M[i][a]]
Dot(u, v) == RSum([i \in DOMAIN u |-> RMul(u[i], v[i])])
NormalMatrix(J, d) == [a \in 1..d |-> [b \in 1..d |-> Dot(Column(J, a), Column(J, b))]]
RightHandSide(J, r, d) == [a \in 1..d |-> Dot(Column(J, a), r)]

(* ------------------------------------------------------------------ *)
(* Linear solvers                                                     *)
(* ------------------------------------------------------------------ *)
(* A float array whose entries share a power of ten is kept as          *)
(* [m |-> exact entries, e |-> exponent]: it stands for m * 10^(-e).     *)
Scaled(m, e) == [m |-> m, e |-> e]
Exact(m) == Scaled(m, 0)

(* n * 10^e < d, computed without leaving the integer range *)
RECURSIVE ScaledBelow(_, _, _)
ScaledBelow(n, d, e) ==
  IF e = 0 THEN n < d ELSE ScaledBelow(n, (d + 9) \div 10, e - 1)

(* n < d * 10^e, computed without leaving the integer range *)
RECURSIVE ShiftedBelow(_, _, _)
ShiftedBelow(n, d, e) ==
  IF e = 0 THEN n < d ELSE ShiftedBelow(n \div 10, d, e - 1)

(* abs(determinant) < 1e-14 *)
SingularExponent == 14

(* mutant: only a determinant of exactly zero is rejected *)
NearSingular_ExactZero(determinant) == determinant.m = Zero

NearSingular(determinant) ==
  LET n == Abs(determinant.m[1])
      d == determinant.m[2]
      e == SingularExponent - determinant.e
  IN  IF e >= 0 THEN ScaledBelow(n, d, e) ELSE ShiftedBelow(n, d, -e)

Raised(error) == [ok |-> FALSE, error |-> error]
Solved(solution, e) == [ok |-> TRUE, x |-> solution, e |-> e]

(* matrix[0, 0] * matrix[1, 1] - matrix[0, 1] * matrix[1, 0] *)
Det2(matrix) ==
  Scaled(RSub(RMul(matrix.m[1][1], matrix.m[2][2]),
              RMul(matrix.m[1][2], matrix.m[2][1])),
         2 * matrix.e)

(* mutant: the off-diagonal entries are taken the wrong way round *)
Cramer2_Transposed(matrix, vector, determinant) ==
  Solved(<< RDiv(RSub(RMul(vector.m[1], matrix.m[2][2]),
                      RMul(vector.m[2], matrix.m[2][1])), determinant.m),
            RDiv(RSub(RMul(matrix.m[1][1], vector.m[2]),
                      RMul(matrix.m[1][2], vector.m[1])), determinant.m) >>,
         vector.e + matrix.e - determinant.e)

(* solution_0, solution_1 of solve_2x2; x0, x1 of solve_linear_system *)
Cramer2(matrix, vector, determinant) ==
  Solved(<< RDiv(RSub(RMul(vector.m[1], matrix.m[2][2]),
                      RMul(vector.m[2], matrix.m[1][2])), determinant.m),
            RDiv(RSub(RMul(matrix.m[1][1], vector.m[2]),
                      RMul(matrix.m[2][1], vector.m[1])), determinant.m) >>,
         vector.e + matrix.e - determinant.e)

solve_2x2(matrix, vector) ==
  LET determinant == Det2(matrix)
  IN  IF NearSingular(determinant)
      THEN Raised("ValueError")
      ELSE Cramer2(matrix, vector, determinant)

(* np.linalg.solve for the 1x1 and 2x2 systems of the model: the exact   *)
(* solution, LinAlgError when the matrix is singular                     *)
linalg_solve(matrix, vector) ==
  IF Len(matrix.m) = 1
  THEN IF matrix.m[1][1] = Zero
       THEN Raised("LinAlgError")
       ELSE Solved(<<RDiv(vector.m[1], matrix.m[1][1])>>, vector.e - matrix.e)
  ELSE IF Det2(matrix).m = Zero
       THEN Raised("LinAlgError")
       ELSE Cramer2(matrix, vector, Det2(matrix))

(* matrix.shape == (2, 2) *)
IsTwoByTwo(matrix) == Len(matrix.m) = 2 /\ Len(matrix.m[1]) = 2

solve(matrix, vector) ==
  IF IsTwoByTwo(matrix)
  THEN solve_2x2(matrix, vector)
  ELSE linalg_solve(matrix, vector)

(* ------------------------------------------------------------------ *)
(* Model functions and Jacobians handed to the least-squares solvers  *)
(*   "affine": f(x) = p1 + p2*x                                       *)
(*   "hinge" : f(x) = g(p1 + p2*x)                                    *)
(*   "hinge1": f(x) = g(p1*x)            (one parameter)              *)
(* with the piecewise linear g(t) = 0 (t<0), t (0<=t<=1), 4t-3 (t>1)  *)
(* ------------------------------------------------------------------ *)
g(t) == IF RLt(t, Zero) THEN Zero
        ELSE IF RLt(One, t) THEN RSub(RMul(Int2R(4), t), Int2R(3))
        ELSE t
dg(t) == IF RLt(t, Zero) THEN Zero
         ELSE IF RLt(One, t) THEN Int2R(4)
         ELSE One

func(problem, params, x_vals) ==
  CASE problem = "affine" ->
         [i \in DOMAIN x_vals |-> RAdd(params[1], RMul(params[2], x_vals[i]))]
    [] problem = "hinge" ->
         [i \in DOMAIN x_vals |-> g(RAdd(params[1], RMul(params[2], x_vals[i])))]
    [] problem = "hinge1" ->
         [i \in DOMAIN x_vals |-> g(RMul(params[1], x_vals[i]))]

jacobian(problem, params, x_vals) ==
  CASE problem = "affine" ->
         [i \in DOMAIN x_vals |-> <<One, x_vals[i]>>]
    [] problem = "hinge" ->
         [i \in DOMAIN x_vals |->
            LET s == dg(RAdd(params[1], RMul(params[2], x_vals[i])))
            IN  <<s, RMul(s, x_vals[i])>>]
    [] problem = "hinge1" ->
         [i \in DOMAIN x_vals |-> <<RMul(dg(RMul(params[1], x_vals[i])), x_vals[i])>>]

LSProblems == {"affine", "hinge", "hinge1"}

(* residuals = y_vals - func(params, x_vals) *)
Residuals(problem, params, x_vals, y_vals) ==
  VSub(y_vals, func(problem, params, x_vals))

(* step = solve(J.T @ J, J.T @ residuals) *)
GaussNewtonStep(problem, params, x_vals, y_vals) ==
  LET jacobi_matrix == jacobian(problem, params, x_vals)
      d == Len(params)
  IN  solve(Exact(NormalMatrix(jacobi_matrix, d)),
            Exact(RightHandSide(jacobi_matrix,
                                Residuals(problem, params, x_vals, y_vals), d)))

(* ------------------------------------------------------------------ *)
(* Float arithmetic of bounded precision: signed fixed-point numbers   *)
(* with FracLimbs limbs of four decimal digits after the point.        *)
(* Magnitudes are sequences of limbs, least significant first, without *)
(* leading zero limbs.                                                 *)
(* ------------------------------------------------------------------ *)
Base == 10000
FracLimbs == 3

RECURSIVE NNorm(_)
NNorm(a) ==
  IF a = <<>> THEN a
  ELSE IF a[Len(a)] = 0 THEN NNorm(SubSeq(a, 1, Len(a) - 1)) ELSE a

RECURSIVE NFromInt(_)
NFromInt(n) == IF n = 0 THEN <<>> ELSE <<n % Base>> \o NFromInt(n \div Base)

Limb(a, i) == IF i <= Len(a) THEN a[i] ELSE 0

RECURSIVE NAddFrom(_, _, _, _)
NAddFrom(a, b, i, c) ==
  IF i > Len(a) /\ i > Len(b)
  THEN IF c = 0 THEN <<>> ELSE <<c>>
  ELSE LET t == Limb(a, i) + Limb(b, i) + c
       IN  <<t % Base>> \o NAddFrom(a, b, i + 1, t \div Base)
NAdd(a, b) == NAddFrom(a, b, 1, 0)

(* a - b for a >= b *)
RECURSIVE NSubFrom(_, _, _, _)
NSubFrom(a, b, i, c) ==
  IF i > Len(a) THEN <<>>
  ELSE LET t == Limb(a, i) - Limb(b, i) - c
       IN  IF t < 0 THEN <<t + Base>> \o NSubFrom(a, b, i + 1, 1)
           ELSE <<t>> \o NSubFrom(a, b, i + 1, 0)
NSub(a, b) == NNorm(NSubFrom(a, b, 1, 0))

RECURSIVE NLessFrom(_, _, _)
NLessFrom(a, b, i) ==
  IF i = 0 THEN FALSE
  ELSE IF a[i] # b[i] THEN a[i] < b[i] ELSE NLessFrom(a, b, i - 1)
NLess(a, b) == IF Len(a) # Len(b) THEN Len(a) < Len(b) ELSE NLessFrom(a, b, Len(a))

(* a * m for one limb m *)
RECURSIVE NScaleFrom(_, _, _, _)
NScaleFrom(a, m, i, c) ==
  IF i > Len(a)
  THEN IF c = 0 THEN <<>> ELSE <<c>>
  ELSE LET t == a[i] * m + c
       IN  <<t % Base>> \o NScaleFrom(a, m, i + 1, t \div Base)
NScale(a, m) == IF m = 0 THEN <<>> ELSE NScaleFrom(a, m, 1, 0)

(* a * Base^n and a \div Base^n *)
NShift(a, n) == IF a = <<>> THEN a ELSE [i \in 1..n |-> 0] \o a
NDrop(a, n) == IF Len(a) <= n THEN <<>> ELSE SubSeq(a, n + 1, Len(a))

RECURSIVE NMulFrom(_, _, _)
NMulFrom(a, b, j) ==
  IF j > Len(b) THEN <<>>
  ELSE NAdd(NShift(NScale(a, b[j]), j - 1), NMulFrom(a, b, j + 1))
NMul(a, b) == NMulFrom(a, b, 1)

(* the largest q in lo..(lo + 10 * unit - 1) with q * b <= r, found one *)
(* decimal digit at a time                                              *)
RECURSIVE QuotientLimb(_, _, _, _)
QuotientLimb(r, b, lo, unit) ==
  IF unit = 0 THEN lo
  ELSE LET digit == CHOOSE d \in 0..9 :
                      /\ ~NLess(r, NScale(b, lo + d * unit))
                      /\ d < 9 => NLess(r, NScale(b, lo + (d + 1) * unit))
       IN  QuotientLimb(r, b, lo + digit * unit, unit \div 10)

(* long division a \div b for b # 0: the quotient limb and the        *)
(* remainder after each limb of a, from the most significant limb down *)
(* to limb i                                                           *)
RECURSIVE NDivFrom(_, _, _)
NDivFrom(a, b, i) ==
  IF i > Len(a) THEN <<[q |-> 0, r |-> <<>>]>>
  ELSE LET before == NDivFrom(a, b, i + 1)
           r1 == NNorm(<<a[i]>> \o before[Len(before)].r)
           q == QuotientLimb(r1, b, 0, Base \div 10)
       IN  Append(before, [q |-> q, r |-> NSub(r1, NScale(b, q))])
NDiv(a, b) ==
  LET steps == NDivFrom(a, b, 1)
  IN  NNorm([i \in 1..Len(a) |-> steps[Len(a) + 2 - i].q])

Fx(neg, m) == [neg |-> neg /\ m # <<>>, m |-> m]
FxInt(n) == Fx(n < 0, NShift(NFromInt(Abs(n)), FracLimbs))
FxNeg(a) == Fx(~a.neg, a.m)
FxAdd(a, b) ==
  IF a.neg = b.neg THEN Fx(a.neg, NAdd(a.m, b.m))
  ELSE IF NLess(a.m, b.m) THEN Fx(b.neg, NSub(b.m, a.m))
  ELSE Fx(a.neg, NSub(a.m, b.m))
FxSub(a, b) == FxAdd(a, FxNeg(b))
FxMul(a, b) == Fx(a.neg # b.neg, NDrop(NMul(a.m, b.m), FracLimbs))
FxDiv(a, b) == Fx(a.neg # b.neg, NDiv(NShift(a.m, FracLimbs), b.m))
FxVAdd(u, v) == [i \in DOMAIN u |-> FxAdd(u[i], v[i])]

(* ------------------------------------------------------------------ *)
(* Systems f(x) = 0 handed to the root finders                        *)
(*   "cubic"       : f and jacobian of the Newton scripts             *)
(*   "hinge_system": f(x) = [g(x1) - 2, g(x2) + x1 - 3]               *)
(* ------------------------------------------------------------------ *)
Cube(a) == RMul(a, RMul(a, a))

f(problem, x) ==
  CASE problem = "cubic" ->
         << RAdd(RMul(Int2R(2), x[1]), RMul(Int2R(4), x[2])),
            RAdd(RMul(Int2R(4), x[1]), RMul(Int2R(8), Cube(x[2]))) >>
    [] problem = "hinge_system" ->
         << RSub(g(x[1]), Int2R(2)),
            RSub(RAdd(g(x[2]), x[1]), Int2R(3)) >>

Df(problem, x) ==
  CASE problem = "cubic" ->
         << <<Int2R(2), Int2R(4)>>,
            <<Int2R(4), RMul(Int2R(24), RMul(x[2], x[2]))>> >>
    [] problem = "hinge_system" ->
         << <<dg(x[1]), Zero>>,
            <<One, dg(x[2])>> >>

RootProblems == {"cubic", "hinge_system"}

(* solve_linear_system of the damped Newton script: Cramer's rule,     *)
(* ValueError when det == 0                                            *)
solve_linear_system(A, b) ==
  LET det == Det2(A)
  IN  IF det.m = Zero
      THEN Raised("ValueError")
      ELSE Cramer2(A, b, det)

(* ------------------------------------------------------------------ *)
(* The linear solvers of the simplified Newton script                 *)
(* ------------------------------------------------------------------ *)
(* mutant: U is the caller's matrix instead of a new list of lists *)
lu_shares_InPlace(A) == TRUE

(* U = [[0.0] * n for _ in range(n)]: does U share its rows with A *)
lu_shares(A) == FALSE

(* the decomposition loop for n = 1 and n = 2, unrolled:               *)
(*   U[0][0] = A[0][0], U[0][1] = A[0][1], L[1][0] = A[1][0] / U[0][0], *)
(*   U[1][1] = A[1][1] - L[1][0] * U[0][1]                              *)
(* a record [ok, U, L10]; a division by zero raises ZeroDivisionError  *)
lu_factor(A) ==
  IF Len(A.m) = 1
  THEN [ok |-> TRUE, U |-> A.m, L10 |-> Zero]
  ELSE IF A.m[1][1] = Zero
       THEN [ok |-> FALSE, U |-> << A.m[1], <<Zero, Zero>> >>, L10 |-> Zero]
       ELSE LET L10 == RDiv(A.m[2][1], A.m[1][1])
            IN  [ok |-> TRUE,
                 U |-> << A.m[1],
                          <<Zero, RSub(A.m[2][2], RMul(L10, A.m[1][2]))>> >>,
                 L10 |-> L10]

(* forward substitution L y = b, backward substitution U x = y *)
lu_substitute(fac, A, b) ==
  IF Len(A.m) = 1
  THEN IF fac.U[1][1] = Zero
       THEN Raised("ZeroDivisionError")
       ELSE Solved(<<RDiv(b.m[1], fac.U[1][1])>>, b.e - A.e)
  ELSE LET y0 == b.m[1]
           y1 == RSub(b.m[2], RMul(fac.L10, y0))
       IN  IF fac.U[2][2] = Zero
           THEN Raised("ZeroDivisionError")
           ELSE LET x1 == RDiv(y1, fac.U[2][2])
                    x0 == RDiv(RSub(y0, RMul(fac.U[1][2], x1)), fac.U[1][1])
                IN  Solved(<<x0, x1>>, b.e - A.e)

lu_decomposition(A, b) ==
  LET fac == lu_factor(A)
  IN  IF fac.ok THEN lu_substitute(fac, A, b) ELSE Raised("ZeroDivisionError")

(* the contents of the caller's matrix when lu_decomposition is left *)
lu_leaves(A) == IF lu_shares(A) THEN Scaled(lu_factor(A).U, A.e) ELSE A

Methods == {"2x2", "LU", "LGS", "QR"}

solve_with_method(A, b, method) ==
  CASE method = "2x2" -> solve_linear_system(A, b)
    [] method = "LU" -> lu_decomposition(A, b)
    [] method = "LGS" -> solve_linear_system(A, b)
    [] OTHER -> Raised("ValueError")

(* ------------------------------------------------------------------ *)
(* Inputs                                                             *)
(* ------------------------------------------------------------------ *)
Grid == {-1, 0, 1, 2}
Samples == <<Zero, One>>
Observations ==
  { <<Int2R(2), Int2R(5)>>, <<Zero, One>>, <<One, Zero>>, <<Int2R(-1), One>> }
Tolerances(s) ==
  IF s \in {"newton_method", "damped_newton"}
  THEN { <<1, 100>>, One, Int2R(4) }
  ELSE { <<1, 100>>, One }
StartPoints(problem) ==
  CASE problem \in {"affine", "hinge"} ->
         { <<Int2R(a), Int2R(b)>> : a \in Grid, b \in Grid }
    [] problem = "hinge1" ->
         { <<Int2R(a)>> : a \in Grid } \cup { <<Rat(1, 2)>> }
    [] problem = "cubic" ->
         { <<Int2R(a), Int2R(b)>> : a \in {-2, 0, 2, 4}, b \in {-1, 0, 1} }
    [] problem = "hinge_system" ->
         { <<a, b>> : a \in {Int2R(-1), Zero, Rat(1, 2), One, Int2R(2), Int2R(3)},
                      b \in {Zero, Rat(1, 2), One, Int2R(2)} }
SolversFor(problem) ==
  IF problem \in LSProblems
  THEN {"gauss_newton", "gauss_newton_damped"}
  ELSE {"newton_method", "damped_newton"}

(* ------------------------------------------------------------------ *)
(* State                                                              *)
(* ------------------------------------------------------------------ *)
VARIABLES
  problem, x_vals, y_vals,       \* func/jacobian and the data of the driver
  initial_guess,                 \* contents of the caller's start array (x0)
  guess_is_float_array,          \* the caller passes a float ndarray (else a list)
  calls,                         \* solver calls made by the driver so far
  solver, max_iterations, tolerance, max_halving,   \* arguments of the call
  pc,
  params, aliased,               \* params and whether it is the caller's array
  iteration, iteration_history, step, old_error,
  damping_factor, halving, trial_params, new_error,
  x, k, fx, delta_x, lambda_, x_new,                \* locals of the root finders
  trials,                        \* trial points of the running while-loop of damped_newton
  result,                        \* what the call returned or raised
  started,                       \* outer iterations begun in this call
  guess_at_call,                 \* contents of initial_guess when the call began
  exit_path,                     \* the return/raise statement that ended the call
  A_arg, b_arg,                  \* the caller's matrix and right-hand side
  routine, method,               \* the linear solver called last and its method argument
  solution,                      \* what that call returned or raised
  earlier,                       \* the call before it: [routine, method, solution]
  kcalls,                        \* linear solver calls made so far
  point, point_kind,             \* the caller's point and what holds it (ndarray dtype or list)
  delta, diff_routine,           \* the perturbation and the derivative routine called
  var_index,                     \* loop variable i of compute_jacobian / argument var_index
  forward_point, backward_point,
  evaluated,                     \* the pairs of points func was called with, in order
  derivative,                    \* jacobian[0, :] resp. the returned quotient
  dpc,
  point_at_call,                 \* contents of point when the routine was called
  request,                       \* the numerical routine the driver calls and its arguments
  outcome                        \* what that call returned or raised

driverVars == <<problem, x_vals, y_vals, guess_is_float_array>>
argVars == <<solver, max_iterations, tolerance, max_halving, guess_at_call>>
dampVars == <<old_error, damping_factor, halving, trial_params, new_error>>
rootVars == <<x, k, fx, delta_x, lambda_, x_new, trials>>
lsVars == <<params, aliased, iteration, iteration_history, step>>
solverVars == <<driverVars, initial_guess, calls, argVars, pc, lsVars, dampVars,
                rootVars, result, started, exit_path>>
kernelVars == <<A_arg, b_arg, routine, method, solution, earlier, kcalls>>
diffVars == <<point, point_kind, delta, diff_routine, var_index, forward_point,
              backward_point, evaluated, derivative, dpc, point_at_call>>
routineVars == <<request, outcome>>
vars == <<solverVars, kernelVars, diffVars, routineVars>>

(* what the actions of one program leave alone: the other programs *)
besidesSolvers == <<kernelVars, diffVars, routineVars>>
besidesKernel == <<solverVars, diffVars, routineVars>>
besidesDiff == <<solverVars, kernelVars, routineVars>>
besidesRoutines == <<solverVars, kernelVars, diffVars>>

NoResult == [kind |-> "none", params |-> <<>>, history |-> <<>>,
             iterations |-> 0, error |-> "none"]
Return(p, h) == [kind |-> "return", params |-> p, history |-> h,
                 iterations |-> 0, error |-> "none"]
ReturnCount(p, n) == [kind |-> "return", params |-> p, history |-> <<>>,
                      iterations |-> n, error |-> "none"]
(* mutant: the exception is swallowed and an empty result handed back *)
Raise_Swallowed(e) == [kind |-> "return", params |-> <<>>, history |-> <<>>,
                       iterations |-> 0, error |-> e]

Raise(e) == [kind |-> "raise", params |-> <<>>, history |-> <<>>,
             iterations |-> 0, error |-> e]

SolverInit ==
  /\ problem \in LSProblems \cup RootProblems
  /\ x_vals = IF problem \in LSProblems THEN Samples ELSE <<>>
  /\ y_vals \in IF problem \in LSProblems THEN Observations ELSE {<<>>}
  /\ initial_guess \in StartPoints(problem)
  /\ guess_is_float_array \in BOOLEAN
  /\ calls = 0
  /\ solver = "none" /\ max_iterations = 0 /\ tolerance = One /\ max_halving = 0
  /\ pc = "idle"
  /\ params = <<>> /\ aliased = FALSE /\ iteration = 0
  /\ iteration_history = <<>> /\ step = <<>> /\ old_error = Zero
  /\ damping_factor = One /\ halving = 0 /\ trial_params = <<>> /\ new_error = Zero
  /\ x = <<>> /\ k = 0 /\ fx = <<>> /\ delta_x = <<>> /\ lambda_ = One /\ x_new = <<>>
  /\ trials = 0
  /\ result = NoResult /\ started = 0 /\ guess_at_call = <<>> /\ exit_path = "none"

NoCall == [routine |-> "none", method |-> "none", solution |-> Raised("none")]

KernelIdle ==
  /\ A_arg = Exact(<<>>) /\ b_arg = Exact(<<>>)
  /\ routine = "none" /\ method = "none" /\ solution = Raised("none")
  /\ earlier = NoCall /\ kcalls = 0

DiffIdle ==
  /\ point = <<>> /\ point_kind = "none" /\ delta = One /\ diff_routine = "none"
  /\ var_index = 0 /\ forward_point = <<>> /\ backward_point = <<>>
  /\ evaluated = <<>> /\ derivative = <<>> /\ dpc = "idle" /\ point_at_call = <<>>

(* values of the numerical routines: what a call hands back *)
Pending == [type |-> "pending"]
PyRaise(error) == [type |-> "raise", error |-> error]
PyFloat(v) == [type |-> "float", value |-> v]
PyList(items) == [type |-> "list", items |-> items]
PyTuple(items) == [type |-> "tuple", items |-> items]
NdArray(rows) == [type |-> "ndarray", rows |-> rows]

RoutineIdle == request = [routine |-> "none"] /\ outcome = Pending

Init == SolverInit /\ KernelIdle /\ DiffIdle /\ RoutineIdle

(* ------------------------------------------------------------------ *)
(* Pieces of the solvers                                              *)
(* ------------------------------------------------------------------ *)
(* params = np.asarray(initial_guess, dtype=float): a float ndarray is *)
(* returned as it is, anything else is converted into a new array      *)
asarray_shares(is_float_array) == is_float_array

(* mutant: the record keeps the params array itself *)
record_shares_NoCopy(p) == TRUE

(* "params": params.copy(): does the record hold the array params *)
record_shares(p) == FALSE

(* the history after params += step: the update shows through every    *)
(* record that holds the array itself                                    *)
HistoryAfterUpdate(h, updated) ==
  [i \in DOMAIN h |->
     IF record_shares(h[i].params) THEN [h[i] EXCEPT !.params = updated] ELSE h[i]]

(* mutant: the records are numbered from one *)
GNRecord_OneBased(it, p, s, residuals) ==
  [iteration |-> it + 1, params |-> p, step |-> s, error |-> norm(residuals)]

GNRecord(it, p, s, residuals) ==
  [iteration |-> it, params |-> p, step |-> s, error |-> norm(residuals)]

(* mutant: the undamped step is stored in the record *)
GNDRecord_FullStep(it, p, s, lam, olderr, newerr) ==
  [iteration |-> it, params |-> p, step |-> s,
   old_error |-> olderr, new_error |-> newerr, damping_factor |-> lam]

(* mutant: the two errors are stored under each other's key *)
GNDRecord_SwappedErrors(it, p, s, lam, olderr, newerr) ==
  [iteration |-> it, params |-> p, step |-> VScale(lam, s),
   old_error |-> newerr, new_error |-> olderr, damping_factor |-> lam]

GNDRecord(it, p, s, lam, olderr, newerr) ==
  [iteration |-> it, params |-> p, step |-> VScale(lam, s),
   old_error |-> olderr, new_error |-> newerr, damping_factor |-> lam]

(* mutant: a step of norm equal to the tolerance ends the solve too *)
StepConverged_NonStrict(s, tol) == RLt(Zero, tol) /\ ~RLt(RMul(tol, tol), norm(s))

(* if np.linalg.norm(step) < tolerance *)
StepConverged(s, tol) == NormBelow(s, tol)

(* mutant: the parameters before the update are handed back *)
GNEarlyReturn_PreUpdate(p, s, h) == Return(p, h)

(* return params + step, iteration_history *)
GNEarlyReturn(p, s, h) == Return(VAdd(p, s), h)

(* return params, iteration_history  (after the loop) *)
FinalReturn(p, h) == Return(p, h)

(* mutant: the damping factor of the previous iteration is carried over *)
InitialDamping_Stale == damping_factor

(* damping_factor = 1.0 *)
InitialDamping == One

(* for _ in range(max_halving + 1) *)
TrialBudget(mh) == mh + 1

(* trial_params = params + damping_factor * step *)
TrialPoint(p, lam, s) == VAdd(p, VScale(lam, s))

(* mutant: a trial point that merely does not increase the error is accepted *)
Accepts_NotWorse(newerr, olderr) == ~RLt(olderr, newerr)

(* if new_error < old_error: break *)
Accepts(newerr, olderr) == RLt(newerr, olderr)

(* damping_factor *= 0.5 *)
Halve(lam) == RMul(lam, <<1, 2>>)

(* mutant: the rejected iteration is logged before giving up *)
StagnationReturn_Logged(p, h) ==
  Return(p, Append(h, GNDRecord(iteration, p, step, damping_factor, old_error, new_error)))

(* mutant: the last rejected trial point is handed back *)
StagnationReturn_Trial(p, h) == Return(trial_params, h)

(* else: return params, iteration_history *)
StagnationReturn(p, h) == Return(p, h)

(* mutant: the history is handed back as it was before the append *)
GNDEarlyReturn_BeforeAppend(t, h) == Return(t, SubSeq(h, 1, Len(h) - 1))

(* return trial_params, iteration_history *)
GNDEarlyReturn(t, h) == Return(t, h)

(* mutant: the stopping test looks at the undamped step *)
DampedStep_Undamped(lam, s) == s

(* damping_factor * step  in  np.linalg.norm(damping_factor * step) < tolerance *)
DampedStep(lam, s) == VScale(lam, s)

(* lambda_ /= 2 in binary floating point: after finitely many halvings *)
(* the quotient underflows to 0.0 and stays there                       *)
RECURSIVE Pow2(_)
Pow2(n) == IF n = 0 THEN 1 ELSE 2 * Pow2(n - 1)
HalveFloat(lam) ==
  IF lam[2] >= Pow2(LambdaUnderflow - 1) THEN Zero ELSE RMul(lam, <<1, 2>>)

(* sum(abs(f(x_new)[i])) < sum(abs(f(x)[i])) *)
Descends(prob, xn, xo) == RLt(abs_sum(f(prob, xn)), abs_sum(f(prob, xo)))

(* np.linalg.norm(fx, ord=2) < tol *)
NMConverged(fxv, tol) == NormBelow(fxv, tol)

(* mutant: the convergence test looks at f at the updated point *)
DNConverged_AtNew(fxv, tol) == RLt(abs_sum(f(problem, x_new)), tol)

(* sum(abs(fx[i]) for i in range(2)) < tol *)
DNConverged(fxv, tol) == RLt(abs_sum(fxv), tol)

(* ------------------------------------------------------------------ *)
(* The driver calls a solver                                          *)
(* ------------------------------------------------------------------ *)
Call(s, mi, tol, mh) ==
  /\ pc \in {"idle", "returned", "raised"}
  /\ calls < MaxCalls
  /\ calls' = calls + 1
  /\ solver' = s /\ max_iterations' = mi /\ tolerance' = tol /\ max_halving' = mh
  /\ guess_at_call' = initial_guess
  /\ result' = NoResult /\ started' = 0 /\ exit_path' = "none"
  /\ iteration' = 0 /\ iteration_history' = <<>> /\ step' = <<>>
  /\ old_error' = Zero /\ damping_factor' = One /\ halving' = 0
  /\ trial_params' = <<>> /\ new_error' = Zero
  /\ k' = 0 /\ fx' = <<>> /\ delta_x' = <<>> /\ lambda_' = One /\ x_new' = <<>>
  /\ trials' = 0
  /\ IF s \in {"gauss_newton", "gauss_newton_damped"}
     THEN /\ params' = initial_guess
          /\ aliased' = asarray_shares(guess_is_float_array)
          /\ x' = <<>>
          /\ pc' = IF s = "gauss_newton" THEN "gn_for" ELSE "gnd_for"
     ELSE /\ params' = <<>>
          /\ aliased' = FALSE
          /\ x' = initial_guess
          /\ pc' = IF s = "newton_method" THEN "nm_for" ELSE "dn_for"
  /\ UNCHANGED <<besidesSolvers, driverVars, initial_guess>>

CallSolver ==
  \E s \in SolversFor(problem), mi \in 0..MaxIter :
    \E tol \in Tolerances(s),
       mh \in IF s = "gauss_newton_damped" THEN 0..MaxHalvingBound ELSE {0} :
      Call(s, mi, tol, mh)

(* ------------------------------------------------------------------ *)
(* gauss_newton                                                       *)
(* ------------------------------------------------------------------ *)
GNIterate ==
  /\ pc = "gn_for" /\ iteration < max_iterations
  /\ started' = started + 1
  /\ LET sol == GaussNewtonStep(problem, params, x_vals, y_vals)
     IN  IF sol.ok
         THEN /\ step' = sol.x
              /\ iteration_history' =
                   Append(iteration_history,
                          GNRecord(iteration, params, sol.x,
                                   Residuals(problem, params, x_vals, y_vals)))
              /\ pc' = "gn_test"
              /\ UNCHANGED <<result, exit_path>>
         ELSE /\ pc' = "raised"
              /\ result' = Raise(sol.error)
              /\ exit_path' = "singular"
              /\ UNCHANGED <<step, iteration_history>>
  /\ UNCHANGED <<besidesSolvers, driverVars, initial_guess, calls, argVars, params, aliased,
                 iteration, dampVars, rootVars>>

GNTest ==
  /\ pc = "gn_test"
  /\ IF StepConverged(step, tolerance)
     THEN /\ result' = GNEarlyReturn(params, step, iteration_history)
          /\ pc' = "returned"
          /\ exit_path' = "early"
          /\ UNCHANGED <<params, initial_guess, iteration, iteration_history>>
     ELSE /\ params' = VAdd(params, step)
          /\ initial_guess' = IF aliased THEN VAdd(params, step) ELSE initial_guess
          /\ iteration_history' = HistoryAfterUpdate(iteration_history, VAdd(params, step))
          /\ iteration' = iteration + 1
          /\ pc' = "gn_for"
          /\ UNCHANGED <<result, exit_path>>
  /\ UNCHANGED <<besidesSolvers, driverVars, calls, argVars, aliased, step,
                 dampVars, rootVars, started>>

GNExhausted ==
  /\ pc = "gn_for" /\ iteration >= max_iterations
  /\ result' = FinalReturn(params, iteration_history)
  /\ pc' = "returned"
  /\ exit_path' = "exhausted"
  /\ UNCHANGED <<besidesSolvers, driverVars, initial_guess, calls, argVars, lsVars, dampVars,
                 rootVars, started>>

(* ------------------------------------------------------------------ *)
(* gauss_newton_damped                                                *)
(* ------------------------------------------------------------------ *)
GNDIterate ==
  /\ pc = "gnd_for" /\ iteration < max_iterations
  /\ started' = started + 1
  /\ LET sol == GaussNewtonStep(problem, params, x_vals, y_vals)
     IN  IF sol.ok
         THEN /\ step' = sol.x
              /\ old_error' = norm(Residuals(problem, params, x_vals, y_vals))
              /\ damping_factor' = InitialDamping
              /\ halving' = 0
              /\ pc' = "gnd_trial"
              /\ UNCHANGED <<result, exit_path>>
         ELSE /\ pc' = "raised"
              /\ result' = Raise(sol.error)
              /\ exit_path' = "singular"
              /\ UNCHANGED <<step, old_error, damping_factor, halving>>
  /\ UNCHANGED <<besidesSolvers, driverVars, initial_guess, calls, argVars, params, aliased,
                 iteration, iteration_history, trial_params, new_error, rootVars>>

GNDTrial ==
  /\ pc = "gnd_trial" /\ halving < TrialBudget(max_halving)
  /\ LET t == TrialPoint(params, damping_factor, step)
         e == norm(Residuals(problem, t, x_vals, y_vals))
     IN  /\ trial_params' = t
         /\ new_error' = e
         /\ IF Accepts(e, old_error)
            THEN /\ pc' = "gnd_accept"
                 /\ UNCHANGED <<damping_factor, halving>>
            ELSE /\ damping_factor' = Halve(damping_factor)
                 /\ halving' = halving + 1
                 /\ pc' = "gnd_trial"
  /\ UNCHANGED <<besidesSolvers, driverVars, initial_guess, calls, argVars, lsVars, old_error,
                 rootVars, result, started, exit_path>>

GNDStagnate ==
  /\ pc = "gnd_trial" /\ halving >= TrialBudget(max_halving)
  /\ result' = StagnationReturn(params, iteration_history)
  /\ pc' = "returned"
  /\ exit_path' = "stagnation"
  /\ UNCHANGED <<besidesSolvers, driverVars, initial_guess, calls, argVars, lsVars, dampVars,
                 rootVars, started>>

GNDAccept ==
  /\ pc = "gnd_accept"
  /\ iteration_history' =
       Append(iteration_history,
              GNDRecord(iteration, params, step, damping_factor, old_error, new_error))
  /\ IF StepConverged(DampedStep(damping_factor, step), tolerance)
     THEN /\ result' = GNDEarlyReturn(trial_params, iteration_history')
          /\ pc' = "returned"
          /\ exit_path' = "early"
          /\ UNCHANGED <<params, aliased, iteration>>
     ELSE /\ params' = trial_params
          /\ aliased' = FALSE
          /\ iteration' = iteration + 1
          /\ pc' = "gnd_for"
          /\ UNCHANGED <<result, exit_path>>
  /\ UNCHANGED <<besidesSolvers, driverVars, initial_guess, calls, argVars, step, dampVars,
                 rootVars, started>>

GNDExhausted ==
  /\ pc = "gnd_for" /\ iteration >= max_iterations
  /\ result' = FinalReturn(params, iteration_history)
  /\ pc' = "returned"
  /\ exit_path' = "exhausted"
  /\ UNCHANGED <<besidesSolvers, driverVars, initial_guess, calls, argVars, lsVars, dampVars,
                 rootVars, started>>

(* ------------------------------------------------------------------ *)
(* newton_method (k is the loop variable i)                           *)
(* ------------------------------------------------------------------ *)
NMStep(fxv, sol, x_next, converged) ==
  /\ pc = "nm_for" /\ k < max_iterations
  /\ started' = started + 1
  /\ fx' = fxv
  /\ IF sol.ok
     THEN /\ delta_x' = sol.x
          /\ x' = x_next
          /\ IF converged
             THEN /\ result' = ReturnCount(x_next, k + 1)
                  /\ pc' = "returned"
                  /\ exit_path' = "early"
                  /\ k' = k
             ELSE /\ k' = k + 1
                  /\ pc' = "nm_for"
                  /\ UNCHANGED <<result, exit_path>>
     ELSE /\ pc' = "raised"
          /\ result' = Raise(sol.error)
          /\ exit_path' = "singular"
          /\ UNCHANGED <<delta_x, x, k>>
  /\ UNCHANGED <<besidesSolvers, driverVars, initial_guess, calls, argVars, lsVars, dampVars,
                 lambda_, x_new, trials>>

(* the loop body in exact arithmetic *)
NMIterate ==
  LET fxv == f(problem, x)
      sol == linalg_solve(Exact(Df(problem, x)), Exact(VNeg(fxv)))
  IN  NMStep(fxv, sol, VAdd(x, sol.x), NMConverged(fxv, tolerance))

NMExhausted ==
  /\ pc = "nm_for" /\ k >= max_iterations
  /\ result' = Raise("ValueError")
  /\ pc' = "raised"
  /\ exit_path' = "nonconvergence"
  /\ UNCHANGED <<besidesSolvers, driverVars, initial_guess, calls, argVars, lsVars, dampVars,
                 rootVars, started>>

(* ------------------------------------------------------------------ *)
(* damped_newton                                                      *)
(* ------------------------------------------------------------------ *)
DNIterate ==
  /\ pc = "dn_for" /\ k < max_iterations
  /\ started' = started + 1
  /\ LET fxv == f(problem, x)
         sol == solve_linear_system(Exact(Df(problem, x)), Exact(VNeg(fxv)))
     IN  /\ fx' = fxv
         /\ IF sol.ok
            THEN /\ delta_x' = sol.x
                 /\ lambda_' = One
                 /\ trials' = 0
                 /\ pc' = "dn_while"
                 /\ UNCHANGED <<result, exit_path>>
            ELSE /\ pc' = "raised"
                 /\ result' = Raise(sol.error)
                 /\ exit_path' = "singular"
                 /\ UNCHANGED <<delta_x, lambda_, trials>>
  /\ UNCHANGED <<besidesSolvers, driverVars, initial_guess, calls, argVars, lsVars, dampVars,
                 x, k, x_new>>

DNTrial ==
  /\ pc = "dn_while"
  /\ trials' = IF trials < TrialCap THEN trials + 1 ELSE trials
  /\ LET xn == VAdd(x, VScale(lambda_, delta_x))
     IN  /\ x_new' = xn
         /\ IF Descends(problem, xn, x)
            THEN /\ pc' = "dn_update"
                 /\ UNCHANGED lambda_
            ELSE /\ lambda_' = HalveFloat(lambda_)
                 /\ pc' = "dn_while"
  /\ UNCHANGED <<besidesSolvers, driverVars, initial_guess, calls, argVars, lsVars, dampVars,
                 x, k, fx, delta_x, result, started, exit_path>>

DNUpdate ==
  /\ pc = "dn_update"
  /\ x' = x_new
  /\ IF DNConverged(fx, tolerance)
     THEN /\ result' = ReturnCount(x_new, k + 1)
          /\ pc' = "returned"
          /\ exit_path' = "early"
          /\ k' = k
     ELSE /\ k' = k + 1
          /\ pc' = "dn_for"
          /\ UNCHANGED <<result, exit_path>>
  /\ UNCHANGED <<besidesSolvers, driverVars, initial_guess, calls, argVars, lsVars, dampVars,
                 fx, delta_x, lambda_, x_new, trials, started>>

DNExhausted ==
  /\ pc = "dn_for" /\ k >= max_iterations
  /\ result' = Raise("ValueError")
  /\ pc' = "raised"
  /\ exit_path' = "nonconvergence"
  /\ UNCHANGED <<besidesSolvers, driverVars, initial_guess, calls, argVars, lsVars, dampVars,
                 rootVars, started>>

Next ==
  \/ CallSolver
  \/ GNIterate \/ GNTest \/ GNExhausted
  \/ GNDIterate \/ GNDTrial \/ GNDStagnate \/ GNDAccept \/ GNDExhausted
  \/ NMIterate \/ NMExhausted
  \/ DNIterate \/ DNTrial \/ DNUpdate \/ DNExhausted

Spec == Init /\ [][Next]_vars

(* ------------------------------------------------------------------ *)
(* newton_method of the quadratically convergent script, run in float *)
(* arithmetic on its own f and jacobian                               *)
(* ------------------------------------------------------------------ *)
DefaultTolDigits == 6
DefaultMaxIter == 100
ShortBudget == 3

RECURSIVE TenTo(_)
TenTo(n) == IF n = 0 THEN 1 ELSE 10 * TenTo(n - 1)

(* tol=1e-6 *)
DefaultTol == FxDiv(FxInt(1), FxInt(TenTo(DefaultTolDigits)))

FxCube(a) == FxMul(a, FxMul(a, a))

(* np.array([2 * x1 + 4 * x2, 4 * x1 + 8 * x2 ** 3]) *)
f_float(v) ==
  << FxAdd(FxMul(FxInt(2), v[1]), FxMul(FxInt(4), v[2])),
     FxAdd(FxMul(FxInt(4), v[1]), FxMul(FxInt(8), FxCube(v[2]))) >>

(* np.array([[2, 4], [4, 24 * x2 ** 2]]) *)
jacobian_float(v) ==
  << <<FxInt(2), FxInt(4)>>,
     <<FxInt(4), FxMul(FxInt(24), FxMul(v[2], v[2]))>> >>

(* np.linalg.solve(dfx, -fx) for a 2x2 system *)
linalg_solve_float(matrix, vector) ==
  LET det == FxSub(FxMul(matrix[1][1], matrix[2][2]),
                   FxMul(matrix[1][2], matrix[2][1]))
  IN  IF det.m = <<>>
      THEN Raised("LinAlgError")
      ELSE [ok |-> TRUE,
            x |-> << FxDiv(FxSub(FxMul(vector[1], matrix[2][2]),
                                 FxMul(vector[2], matrix[1][2])), det),
                     FxDiv(FxSub(FxMul(matrix[1][1], vector[2]),
                                 FxMul(matrix[2][1], vector[1])), det) >>]

(* mutant: only the first component of fx enters the norm *)
NMConverged_float_FirstOnly(fxv, tol) ==
  /\ ~tol.neg
  /\ NLess(NMul(fxv[1].m, fxv[1].m), NMul(tol.m, tol.m))

(* np.linalg.norm(fx, ord=2) < tol *)
NMConverged_float(fxv, tol) ==
  /\ ~tol.neg
  /\ NLess(NAdd(NMul(fxv[1].m, fxv[1].m), NMul(fxv[2].m, fxv[2].m)),
           NMul(tol.m, tol.m))

FloatCoordinates == {-4, -2, -1, 0, 1, 2, 3, 4}
FloatStartPoints ==
  { <<FxInt(a), FxInt(b)>> : a \in FloatCoordinates, b \in FloatCoordinates }

(* newton_method(f, jacobian, x0) has been called and is at the loop head *)
NewtonFloatInit ==
  /\ problem = "cubic_float" /\ x_vals = <<>> /\ y_vals = <<>>
  /\ initial_guess \in FloatStartPoints
  /\ guess_is_float_array = TRUE
  /\ calls = 1
  /\ solver = "newton_method"
  /\ max_iterations \in {DefaultMaxIter, ShortBudget}
  /\ tolerance = DefaultTol /\ max_halving = 0
  /\ pc = "nm_for"
  /\ params = <<>> /\ aliased = FALSE /\ iteration = 0
  /\ iteration_history = <<>> /\ step = <<>> /\ old_error = Zero
  /\ damping_factor = One /\ halving = 0 /\ trial_params = <<>> /\ new_error = Zero
  /\ x = initial_guess /\ k = 0 /\ fx = <<>> /\ delta_x = <<>> /\ lambda_ = One
  /\ x_new = <<>> /\ trials = 0
  /\ result = NoResult /\ started = 0 /\ guess_at_call = initial_guess
  /\ exit_path = "none"

(* the loop body in float arithmetic *)
NMFloatIterate ==
  LET fxv == f_float(x)
      sol == linalg_solve_float(jacobian_float(x), <<FxNeg(fxv[1]), FxNeg(fxv[2])>>)
  IN  NMStep(fxv, sol, FxVAdd(x, sol.x), NMConverged_float(fxv, tolerance))

NewtonFloatNext == NMFloatIterate \/ NMExhausted

NewtonFloatStart == NewtonFloatInit /\ KernelIdle /\ DiffIdle /\ RoutineIdle

NewtonFloatSpec == NewtonFloatStart /\ [][NewtonFloatNext]_vars

(* ------------------------------------------------------------------ *)
(* The linear solvers called on their own                             *)
(* ------------------------------------------------------------------ *)
MaxKernelCalls == 2

KernelEntries == {-1, 0, 1, 2}
KernelMatrices ==
  { << <<Int2R(a11), Int2R(a12)>>, <<Int2R(a21), Int2R(a22)>> >> :
       a11 \in KernelEntries, a12 \in KernelEntries,
       a21 \in KernelEntries, a22 \in KernelEntries }
  \cup { << <<Int2R(2), Zero>>, <<Zero, Int2R(3)>> >>,
         << <<One, Int2R(2)>>, <<Int2R(2), Int2R(4)>> >> }
KernelVectors ==
  { <<One, Zero>>, <<Zero, One>>, <<One, One>>, <<Int2R(-1), Int2R(2)>>,
    <<Int2R(4), Int2R(9)>> }
(* the matrix entries are multiples of 1, 1e-6 or 1e-8 *)
KernelScales == {0, 6, 8}

SolverIdle ==
  /\ problem = "none" /\ x_vals = <<>> /\ y_vals = <<>>
  /\ initial_guess = <<>> /\ guess_is_float_array = FALSE
  /\ calls = 0
  /\ solver = "none" /\ max_iterations = 0 /\ tolerance = One /\ max_halving = 0
  /\ pc = "idle"
  /\ params = <<>> /\ aliased = FALSE /\ iteration = 0
  /\ iteration_history = <<>> /\ step = <<>> /\ old_error = Zero
  /\ damping_factor = One /\ halving = 0 /\ trial_params = <<>> /\ new_error = Zero
  /\ x = <<>> /\ k = 0 /\ fx = <<>> /\ delta_x = <<>> /\ lambda_ = One /\ x_new = <<>>
  /\ trials = 0
  /\ result = NoResult /\ started = 0 /\ guess_at_call = <<>> /\ exit_path = "none"

KernelInit ==
  /\ \/ /\ A_arg \in { Scaled(M, e) : M \in KernelMatrices, e \in KernelScales }
        /\ b_arg \in { Exact(v) : v \in KernelVectors }
     \/ /\ A_arg \in { Scaled(<< <<Int2R(a)>> >>, e) : a \in {0, 2}, e \in {0, 16} }
        /\ b_arg = Exact(<<One>>)
  /\ routine = "none" /\ method = "none" /\ solution = Raised("none")
  /\ earlier = NoCall /\ kcalls = 0

(* one call r(A, b) or solve_with_method(A, b, m): sol is what it       *)
(* returns or raises, A_left what the caller's matrix holds afterwards  *)
KernelCall(r, m, sol, A_left) ==
  /\ kcalls < MaxKernelCalls
  /\ kcalls' = kcalls + 1
  /\ earlier' = [routine |-> routine, method |-> method, solution |-> solution]
  /\ routine' = r /\ method' = m
  /\ solution' = sol
  /\ A_arg' = A_left
  /\ UNCHANGED <<b_arg, besidesKernel>>

CallSolve ==
  KernelCall("solve", "none", solve(A_arg, b_arg), A_arg)

CallSolve2x2 ==
  /\ IsTwoByTwo(A_arg)
  /\ KernelCall("solve_2x2", "none", solve_2x2(A_arg, b_arg), A_arg)

CallSolveLinearSystem ==
  /\ IsTwoByTwo(A_arg)
  /\ KernelCall("solve_linear_system", "none", solve_linear_system(A_arg, b_arg), A_arg)

CallLU ==
  KernelCall("lu_decomposition", "none", lu_decomposition(A_arg, b_arg), lu_leaves(A_arg))

CallSolveWithMethod ==
  \E m \in Methods :
    /\ m \in {"2x2", "LGS"} => IsTwoByTwo(A_arg)
    /\ KernelCall("solve_with_method", m, solve_with_method(A_arg, b_arg, m),
                  IF m = "LU" THEN lu_leaves(A_arg) ELSE A_arg)

KernelNext ==
  \/ CallSolve \/ CallSolve2x2 \/ CallSolveLinearSystem
  \/ CallLU \/ CallSolveWithMethod

KernelStart == SolverIdle /\ KernelInit /\ DiffIdle /\ RoutineIdle

KernelSpec == KernelStart /\ [][KernelNext]_vars

(* ------------------------------------------------------------------ *)
(* Central differences: compute_jacobian and partial_derivative       *)
(* ------------------------------------------------------------------ *)
(* the value an element assignment leaves in the container: an integer *)
(* ndarray keeps the value cut towards zero, a float ndarray and a     *)
(* list keep the value                                                 *)
Trunc(r) == IF r[1] >= 0 THEN Int2R(r[1] \div r[2]) ELSE Int2R(-((-r[1]) \div r[2]))
Stored(kind, value) == IF kind = "int_array" THEN Trunc(value) ELSE value

(* c = point.copy(); c[i] += d *)
Perturbed(kind, pt, i, d) == [pt EXCEPT ![i] = Stored(kind, RAdd(pt[i], d))]

(* the func argument: f of jacobi_matrix.py, x1^2 + x2^2, and a         *)
(* polynomial of three variables, x^2 * y + y * z - z                   *)
Apply(callee, v) ==
  IF callee = "compute_jacobian"
  THEN RAdd(RMul(v[1], v[1]), RMul(v[2], v[2]))
  ELSE RSub(RAdd(RMul(RMul(v[1], v[1]), v[2]), RMul(v[2], v[3])), v[3])

(* (func(forward) - func(backward)) / (2 * delta) *)
Quotient(callee, fwd, bwd, d) ==
  RDiv(RSub(Apply(callee, fwd), Apply(callee, bwd)), RMul(Int2R(2), d))

Deltas == { <<1, 2>>, <<1, 10>>, <<1, 100>> }
ArrayPoints ==
  { <<Int2R(a), Int2R(b)>> : a \in {-1, 0, 1}, b \in {0, 2} }
ListPoints == { <<One, Zero, Int2R(2)>>, <<Int2R(2), One, Int2R(-1)>> }

DiffInit ==
  /\ \/ /\ point_kind \in {"int_array", "float_array"}
        /\ point \in ArrayPoints
     \/ /\ point_kind = "float_array"
        /\ point = <<Rat(1, 2), Rat(3, 2)>>
     \/ /\ point_kind = "list"
        /\ point \in ListPoints
  /\ delta \in Deltas
  /\ diff_routine = "none" /\ var_index = 0
  /\ forward_point = <<>> /\ backward_point = <<>>
  /\ evaluated = <<>> /\ derivative = <<>> /\ dpc = "idle" /\ point_at_call = <<>>

(* num_vars = len(point); jacobian = np.zeros((1, num_vars)) *)
CallComputeJacobian ==
  /\ dpc = "idle" /\ point_kind \in {"int_array", "float_array"}
  /\ diff_routine' = "compute_jacobian"
  /\ point_at_call' = point
  /\ derivative' = [i \in 1..Len(point) |-> Zero]
  /\ var_index' = 1
  /\ dpc' = "cj_for"
  /\ UNCHANGED <<point, point_kind, delta, forward_point, backward_point, evaluated,
                 besidesDiff>>

(* one pass of the loop over the coordinates *)
CJIterate ==
  /\ dpc = "cj_for" /\ var_index <= Len(point)
  /\ LET fwd == Perturbed(point_kind, point, var_index, delta)
         bwd == Perturbed(point_kind, point, var_index, RNeg(delta))
     IN  /\ forward_point' = fwd
         /\ backward_point' = bwd
         /\ evaluated' = Append(evaluated, <<fwd, bwd>>)
         /\ derivative' = [derivative EXCEPT
                             ![var_index] = Quotient(diff_routine, fwd, bwd, delta)]
  /\ var_index' = var_index + 1
  /\ UNCHANGED <<point, point_kind, delta, diff_routine, dpc, point_at_call,
                 besidesDiff>>

CJReturn ==
  /\ dpc = "cj_for" /\ var_index > Len(point)
  /\ dpc' = "returned"
  /\ UNCHANGED <<point, point_kind, delta, diff_routine, var_index, forward_point,
                 backward_point, evaluated, derivative, point_at_call, besidesDiff>>

(* partial_derivative(func, var_index, point): point[:] of a list is a *)
(* new list                                                            *)
CallPartialDerivative ==
  \E i \in 1..3 :
    /\ dpc = "idle" /\ point_kind = "list"
    /\ diff_routine' = "partial_derivative"
    /\ point_at_call' = point
    /\ var_index' = i
    /\ LET fwd == Perturbed(point_kind, point, i, delta)
           bwd == Perturbed(point_kind, point, i, RNeg(delta))
       IN  /\ forward_point' = fwd
           /\ backward_point' = bwd
           /\ evaluated' = <<<<fwd, bwd>>>>
           /\ derivative' = <<Quotient("partial_derivative", fwd, bwd, delta)>>
    /\ dpc' = "returned"
    /\ UNCHANGED <<point, point_kind, delta, besidesDiff>>

DiffNext ==
  \/ CallComputeJacobian \/ CJIterate \/ CJReturn
  \/ CallPartialDerivative

DiffStart == SolverIdle /\ KernelIdle /\ DiffInit /\ RoutineIdle

DiffSpec == DiffStart /\ [][DiffNext]_vars

(* ------------------------------------------------------------------ *)
(* The numerical routines called on their own                         *)
(* ------------------------------------------------------------------ *)
(* all sequences of length n over S *)
Lists(S, n) == [1..n -> S]

(* sum(coefficients[i] * y[i] for i in range(n)) *)
RECURSIVE WeightedSum(_, _, _)
WeightedSum(coefficients, y, n) ==
  IF n = 0 THEN Zero
  ELSE RAdd(WeightedSum(coefficients, y, n - 1), RMul(coefficients[n], y[n]))

(* system_of_odes(t, y) of nth_order_to_first_order(coefficients, ...) *)
system_of_odes(coefficients, y) ==
  LET n == Len(coefficients) - 1
      last == coefficients[Len(coefficients)]
  IN  IF last = Zero
      THEN PyRaise("ZeroDivisionError")
      ELSE PyList([i \in 1..n |->
                     IF i < n THEN y[i + 1]
                     ELSE RDiv(RNeg(WeightedSum(coefficients, y, n)), last)])

OdeCoefficients == {One, Int2R(2), Int2R(-1), Rat(3, 10)}
OdeValues == {Zero, One, Int2R(-1)}
OdeRequests ==
  { [routine |-> "nth_order_to_first_order", coefficients |-> c, y |-> y] :
      c \in Lists(OdeCoefficients, 2), y \in Lists(OdeValues, 1) }
  \cup
  { [routine |-> "nth_order_to_first_order", coefficients |-> c, y |-> y] :
      c \in Lists(OdeCoefficients, 3), y \in Lists(OdeValues, 2) }

(* the driver converts the equation and evaluates the system at y *)
CallNthOrder ==
  /\ request.routine = "nth_order_to_first_order" /\ outcome = Pending
  /\ outcome' = system_of_odes(request.coefficients, request.y)
  /\ UNCHANGED <<request, besidesRoutines>>

(* the integrands: f(x) = 1 / x of the drivers, and two polynomials *)
Integrands == {"reciprocal", "identity", "square"}
Integrand(name, at) ==
  CASE name = "reciprocal" -> RDiv(One, at)
    [] name = "identity" -> at
    [] name = "square" -> RMul(at, at)

(* sum(f(a + i * h) for i in range(1, n)) *)
RECURSIVE InnerSum(_, _, _, _)
InnerSum(name, a, h, n) ==
  IF n <= 1 THEN Zero
  ELSE RAdd(InnerSum(name, a, h, n - 1),
            Integrand(name, RAdd(a, RMul(Int2R(n - 1), h))))

(* romberg_table[j, 0] = h * (0.5 * (f(a) + f(b)) + sum_midpoints) *)
TrapezoidLevel(name, a, b, j) ==
  LET n == Pow2(j)
      h == RDiv(RSub(b, a), Int2R(n))
  IN  RMul(h, RAdd(RMul(Rat(1, 2), RAdd(Integrand(name, a), Integrand(name, b))),
                   InnerSum(name, a, h, n)))

(* the first loop: romberg_table[j, 0] for j in range(m) *)
RECURSIVE FirstColumn(_, _, _, _)
FirstColumn(name, a, b, rows) ==
  IF rows = 0 THEN <<>>
  ELSE Append(FirstColumn(name, a, b, rows - 1), TrapezoidLevel(name, a, b, rows - 1))

(* the inner loop for column col: romberg_table[j, col] =               *)
(* (4 ** col * table[j, col - 1] - table[j - 1, col - 1]) / (4 ** col - 1) *)
(* for j in range(col, m); the rows above keep the zero of np.zeros     *)
RECURSIVE NextColumn(_, _, _)
NextColumn(left, col, rows) ==
  IF rows = 0 THEN <<>>
  ELSE Append(NextColumn(left, col, rows - 1),
              IF rows - 1 < col THEN Zero
              ELSE RDiv(RSub(RMul(Int2R(Pow2(2 * col)), left[rows]), left[rows - 1]),
                        Int2R(Pow2(2 * col) - 1)))

(* the columns 0 .. col of the table, each a list over the rows *)
RECURSIVE RombergColumns(_, _, _, _, _)
RombergColumns(name, a, b, levels, col) ==
  IF col = 0 THEN <<FirstColumn(name, a, b, levels)>>
  ELSE LET done == RombergColumns(name, a, b, levels, col - 1)
       IN  Append(done, NextColumn(done[col], col, levels))

romberg_table(name, a, b, levels) ==
  LET columns == RombergColumns(name, a, b, levels, levels - 1)
  IN  [j \in 1..levels |-> [col \in 1..levels |-> columns[col][j]]]

(* return romberg_table *)
romberg_extrapolation(name, a, b, levels) == NdArray(romberg_table(name, a, b, levels))

Intervals == { <<Int2R(2), Int2R(4)>>, <<One, Int2R(2)>>, <<One, Int2R(3)>>, <<Int2R(2), Int2R(3)>> }
RombergLevels == 1..3
RombergRequests ==
  { [routine |-> "romberg_extrapolation", f |-> name, a |-> ab[1], b |-> ab[2],
     levels |-> levels] :
      name \in Integrands, ab \in Intervals, levels \in RombergLevels }

CallRomberg ==
  /\ request.routine = "romberg_extrapolation" /\ outcome = Pending
  /\ outcome' = romberg_extrapolation(request.f, request.a, request.b, request.levels)
  /\ UNCHANGED <<request, besidesRoutines>>

(* right-hand sides f(t, y): t ** 2 + 0.1 * y of the drivers and others *)
RightHandSides == {"driver", "linear", "sum", "product", "square"}
Rhs(name, t, y) ==
  CASE name = "driver" -> RAdd(RMul(t, t), RMul(Rat(1, 10), y))
    [] name = "linear" -> y
    [] name = "sum" -> RAdd(t, y)
    [] name = "product" -> RMul(t, y)
    [] name = "square" -> RMul(y, y)

(* t_values = [t0 + i * h for i in range(n + 1)] *)
TimeGrid(t0, h, n) == [i \in 1..(n + 1) |-> RAdd(t0, RMul(Int2R(i - 1), h))]

(* k1 .. k4 and y_values[i + 1] of runge_kutta_method *)
RK4Step(name, t, y, h) ==
  LET half == Rat(1, 2)
      k1 == RMul(h, Rhs(name, t, y))
      k2 == RMul(h, Rhs(name, RAdd(t, RMul(h, half)), RAdd(y, RMul(k1, half))))
      k3 == RMul(h, Rhs(name, RAdd(t, RMul(h, half)), RAdd(y, RMul(k2, half))))
      k4 == RMul(h, Rhs(name, RAdd(t, h), RAdd(y, k3)))
  IN  RAdd(y, RDiv(RAdd(RAdd(k1, RMul(Int2R(2), k2)), RAdd(RMul(Int2R(2), k3), k4)),
                   Int2R(6)))

RECURSIVE RK4Values(_, _, _, _, _)
RK4Values(name, t0, y0, h, i) ==
  IF i = 0 THEN <<y0>>
  ELSE LET before == RK4Values(name, t0, y0, h, i - 1)
       IN  Append(before, RK4Step(name, RAdd(t0, RMul(Int2R(i - 1), h)), before[i], h))

runge_kutta_method(name, t0, y0, t_end, n) ==
  IF n = 0 THEN PyRaise("ZeroDivisionError")
  ELSE LET h == RDiv(RSub(t_end, t0), Int2R(n))
       IN  PyTuple(<<PyList(TimeGrid(t0, h, n)), PyList(RK4Values(name, t0, y0, h, n))>>)

(* the tableaus [s, a, b, c]: the driver's classical one, Euler, midpoint *)
Tableau(name) ==
  CASE name = "classical" ->
         [s |-> 4,
          a |-> << <<Zero, Zero, Zero, Zero>>, <<Rat(1, 2), Zero, Zero, Zero>>,
                   <<Zero, Rat(1, 2), Zero, Zero>>, <<Zero, Zero, One, Zero>> >>,
          b |-> <<Rat(1, 6), Rat(1, 3), Rat(1, 3), Rat(1, 6)>>,
          c |-> <<Zero, Rat(1, 2), Rat(1, 2), One>>]
    [] name = "euler" ->
         [s |-> 1, a |-> << <<Zero>> >>, b |-> <<One>>, c |-> <<Zero>>]
    [] name = "midpoint" ->
         [s |-> 2, a |-> << <<Zero, Zero>>, <<Rat(1, 2), Zero>> >>,
          b |-> <<Zero, One>>, c |-> <<Zero, Rat(1, 2)>>]
Tableaus == {"classical", "euler", "midpoint"}

(* sum(weights[m] * ks[m] for m in range(count)): the running totals,    *)
(* from the 0 that sum starts with                                      *)
RECURSIVE StageSums(_, _, _)
StageSums(weights, ks, count) ==
  IF count = 0 THEN <<Zero>>
  ELSE LET totals == StageSums(weights, ks, count - 1)
       IN  Append(totals, RAdd(totals[count], RMul(weights[count], ks[count])))

StageSum(weights, ks, count) == StageSums(weights, ks, count)[count + 1]

(* mutant: the stage point is moved by the sum without the step size *)
StagePoint_Unscaled(y, h, total) == RAdd(y, total)

(* y_stage = y_values[i] + h * sum(...) *)
StagePoint(y, h, total) == RAdd(y, RMul(h, total))

(* the list k after its first j entries are set *)
RECURSIVE Stages(_, _, _, _, _, _)
Stages(name, tab, t, y, h, j) ==
  IF j = 0 THEN <<>>
  ELSE LET ks == Stages(name, tab, t, y, h, j - 1)
           t_stage == RAdd(t, RMul(tab.c[j], h))
           y_stage == StagePoint(y, h, StageSum(tab.a[j], ks, j - 1))
       IN  Append(ks, Rhs(name, t_stage, y_stage))

(* y_values[i + 1] = y_values[i] + h * sum(b[j] * k[j] for j in range(s)) *)
(* over the s entries of the list k *)
StageStep(name, tab, t, y, h) ==
  LET ks == Stages(name, tab, t, y, h, tab.s)
  IN  RAdd(y, RMul(h, StageSum(tab.b, ks, Len(ks))))

RECURSIVE StageValues(_, _, _, _, _, _)
StageValues(name, tab, t0, y0, h, i) ==
  IF i = 0 THEN <<y0>>
  ELSE LET before == StageValues(name, tab, t0, y0, h, i - 1)
       IN  Append(before,
                  StageStep(name, tab, RAdd(t0, RMul(Int2R(i - 1), h)), before[i], h))

s_stage_runge_kutta(name, t0, y0, t_end, n, tab) ==
  IF n = 0 THEN PyRaise("ZeroDivisionError")
  ELSE LET h == RDiv(RSub(t_end, t0), Int2R(n))
       IN  PyTuple(<<PyList(TimeGrid(t0, h, n)),
                     PyList(StageValues(name, tab, t0, y0, h, n))>>)

TimeSpans == { <<Zero, One>>, <<Rat(-3, 2), Rat(3, 2)>>, <<One, Int2R(2)>> }
(* the calls for which the exact values stay small *)
Representable(q) ==
  /\ <<q.t0, q.t_end>> \in TimeSpans
  /\ q.f = "square" => (q.t0 = Zero /\ q.n <= 1)
  /\ q.f = "driver" => q.n <= 1
RungeKuttaCalls ==
  { q \in [f : RightHandSides, t0 : {Zero, One, Rat(-3, 2)},
           t_end : {One, Int2R(2), Rat(3, 2)}, y0 : {Zero, One}, n : 0..2] :
      Representable(q) }
RungeKuttaRequests ==
  { [routine |-> "runge_kutta_method", tableau |-> "none", args |-> call] :
      call \in RungeKuttaCalls }
  \cup
  { [routine |-> "s_stage_runge_kutta", tableau |-> tab, args |-> call] :
      tab \in Tableaus, call \in RungeKuttaCalls }

CallRungeKutta ==
  /\ request.routine = "runge_kutta_method" /\ outcome = Pending
  /\ outcome' = runge_kutta_method(request.args.f, request.args.t0, request.args.y0,
                                   request.args.t_end, request.args.n)
  /\ UNCHANGED <<request, besidesRoutines>>

CallStageRungeKutta ==
  /\ request.routine = "s_stage_runge_kutta" /\ outcome = Pending
  /\ outcome' = s_stage_runge_kutta(request.args.f, request.args.t0, request.args.y0,
                                    request.args.t_end, request.args.n,
                                    Tableau(request.tableau))
  /\ UNCHANGED <<request, besidesRoutines>>

(* what a quadrature call hands back, and how often it has called f *)
Evaluated(count, value) == [result |-> value, evals |-> count]

(* sum of f(a + h * (i + 0.5)) for i in range(n) *)
RECURSIVE MidpointSum(_, _, _, _)
MidpointSum(name, a, h, n) ==
  IF n <= 0 THEN Zero
  ELSE RAdd(MidpointSum(name, a, h, n - 1),
            Integrand(name, RAdd(a, RMul(h, RAdd(Int2R(n - 1), Rat(1, 2))))))

(* sum of 2 * f(x_i) for even i and 4 * f(x_i) for odd i in range(1, n) *)
RECURSIVE SimpsonSum(_, _, _, _)
SimpsonSum(name, a, h, n) ==
  IF n <= 1 THEN Zero
  ELSE RAdd(SimpsonSum(name, a, h, n - 1),
            RMul(Int2R(IF (n - 1) % 2 = 0 THEN 2 ELSE 4),
                 Integrand(name, RAdd(a, RMul(Int2R(n - 1), h)))))

(* an optional argument: None, or a number *)
None == [given |-> FALSE, value |-> Zero]
Given(v) == [given |-> TRUE, value |-> v]

(* if include_error: ... raise ValueError / return integral, error_boundary *)
(* return integral                                                          *)
WithErrorBound(integral, boundary, include_error, max_f) ==
  IF include_error
  THEN IF max_f = None
       THEN PyRaise("ValueError")
       ELSE PyTuple(<<PyFloat(integral), PyFloat(RMul(boundary, max_f.value))>>)
  ELSE PyFloat(integral)

Count(n) == IF n < 0 THEN 0 ELSE n

rechteckregel(name, a, b, n, include_error, max_f2) ==
  IF n = 0 THEN Evaluated(0, PyRaise("ZeroDivisionError"))
  ELSE LET h == RDiv(RSub(b, a), Int2R(n))
           integral == RMul(h, MidpointSum(name, a, h, n))
       IN  Evaluated(Count(n),
                     WithErrorBound(integral, RMul(RDiv(RMul(h, h), Int2R(24)), RSub(b, a)),
                                    include_error, max_f2))

trapezregel(name, a, b, n, include_error, max_f2) ==
  IF n = 0 THEN Evaluated(0, PyRaise("ZeroDivisionError"))
  ELSE LET h == RDiv(RSub(b, a), Int2R(n))
           integral ==
             RMul(h, RAdd(RMul(Rat(1, 2), RAdd(Integrand(name, a), Integrand(name, b))),
                          InnerSum(name, a, h, n)))
       IN  Evaluated(2 + Count(n - 1),
                     WithErrorBound(integral, RMul(RDiv(RMul(h, h), Int2R(12)), RSub(b, a)),
                                    include_error, max_f2))

simpsonregel(name, a, b, n, include_error, max_f4) ==
  IF n % 2 = 1 THEN Evaluated(0, PyRaise("ValueError"))
  ELSE IF n = 0 THEN Evaluated(0, PyRaise("ZeroDivisionError"))
  ELSE LET h == RDiv(RSub(b, a), Int2R(n))
           integral ==
             RMul(RDiv(h, Int2R(3)),
                  RAdd(RAdd(Integrand(name, a), Integrand(name, b)),
                       SimpsonSum(name, a, h, n)))
       IN  Evaluated(2 + Count(n - 1),
                     WithErrorBound(integral,
                                    RMul(RDiv(RMul(RMul(h, h), RMul(h, h)), Int2R(2880)),
                                         RSub(b, a)),
                                    include_error, max_f4))

(* points and weights; the floats 1 / 3 ** 0.5 and 0.774596669241483    *)
(* are kept to three decimals                                           *)
GaussRule(n) ==
  CASE n = 1 -> [points |-> <<Zero>>, weights |-> <<Int2R(2)>>]
    [] n = 2 -> [points |-> <<Rat(-577, 1000), Rat(577, 1000)>>,
                 weights |-> <<One, One>>]
    [] n = 3 -> [points |-> <<Rat(-775, 1000), Zero, Rat(775, 1000)>>,
                 weights |-> <<Rat(5, 9), Rat(8, 9), Rat(5, 9)>>]

(* integral after i rounds of: integral += weights[i] * f(transform(points[i])) *)
RECURSIVE GaussSum(_, _, _, _, _)
GaussSum(name, a, b, rule, i) ==
  IF i = 0 THEN Zero
  ELSE RAdd(GaussSum(name, a, b, rule, i - 1),
            RMul(rule.weights[i],
                 Integrand(name, RAdd(RMul(RDiv(RSub(b, a), Int2R(2)), rule.points[i]),
                                      RDiv(RAdd(b, a), Int2R(2))))))

gauss_quadratur(name, a, b, n) ==
  IF n \notin {1, 2, 3} THEN Evaluated(0, PyRaise("ValueError"))
  ELSE Evaluated(n, PyFloat(RMul(GaussSum(name, a, b, GaussRule(n), n),
                                 RDiv(RSub(b, a), Int2R(2)))))

NewtonCotes == {"rechteckregel", "trapezregel", "simpsonregel"}
IntervalCounts == -1..4
QuadratureRequests ==
  { [routine |-> r, f |-> name, a |-> ab[1], b |-> ab[2], n |-> n,
     include_error |-> ie, max_f |-> mf] :
      r \in NewtonCotes, name \in Integrands, ab \in Intervals, n \in IntervalCounts,
      ie \in BOOLEAN, mf \in {None, Given(Rat(1, 4)), Given(Rat(3, 4))} }
  \cup
  { [routine |-> "gauss_quadratur", f |-> name, a |-> ab[1], b |-> ab[2], n |-> n] :
      name \in Integrands, ab \in Intervals, n \in IntervalCounts }

CallRechteckregel ==
  /\ request.routine = "rechteckregel" /\ outcome = Pending
  /\ outcome' = rechteckregel(request.f, request.a, request.b, request.n,
                              request.include_error, request.max_f)
  /\ UNCHANGED <<request, besidesRoutines>>

CallTrapezregel ==
  /\ request.routine = "trapezregel" /\ outcome = Pending
  /\ outcome' = trapezregel(request.f, request.a, request.b, request.n,
                            request.include_error, request.max_f)
  /\ UNCHANGED <<request, besidesRoutines>>

CallSimpsonregel ==
  /\ request.routine = "simpsonregel" /\ outcome = Pending
  /\ outcome' = simpsonregel(request.f, request.a, request.b, request.n,
                             request.include_error, request.max_f)
  /\ UNCHANGED <<request, besidesRoutines>>

CallGaussQuadratur ==
  /\ request.routine = "gauss_quadratur" /\ outcome = Pending
  /\ outcome' = gauss_quadratur(request.f, request.a, request.b, request.n)
  /\ UNCHANGED <<request, besidesRoutines>>

(* ---- splinefunktion.py: evaluate_spline ---- *)
(* a + b * dx + c * dx ** 2 + d * dx ** 3 *)
Cubic(coefficients, dx) ==
  RAdd(RAdd(RAdd(coefficients[1], RMul(coefficients[2], dx)),
            RMul(coefficients[3], RMul(dx, dx))),
       RMul(coefficients[4], RMul(dx, RMul(dx, dx))))

(* mutant: the right end of an interval does not belong to it *)
InInterval_HalfOpen(x_points, i, at) ==
  ~RLt(at, x_points[i]) /\ RLt(at, x_points[i + 1])

(* x_points[i] <= x <= x_points[i + 1], the intervals counted from 1 *)
InInterval(x_points, i, at) ==
  ~RLt(at, x_points[i]) /\ ~RLt(x_points[i + 1], at)

(* for i in range(len(x_points) - 1): ... return; after the loop: raise *)
RECURSIVE SplineSearch(_, _, _, _)
SplineSearch(splines, x_points, at, i) ==
  IF i > Len(x_points) - 1 THEN PyRaise("ValueError")
  ELSE IF InInterval(x_points, i, at)
       THEN PyFloat(Cubic(splines[i], RSub(at, x_points[i])))
       ELSE SplineSearch(splines, x_points, at, i + 1)

evaluate_spline(splines, x_points, at) == SplineSearch(splines, x_points, at, 1)

MaxPoints == 3
Knots == {Int2R(0), Int2R(1), Int2R(2)}
Ascending(points) == \A i \in 1..(Len(points) - 1) : ~RLt(points[i + 1], points[i])
SupportPoints ==
  UNION { {points \in Lists(Knots, n) : Ascending(points)} : n \in 1..MaxPoints }
SplineCoefficients ==
  { <<Int2R(1), Int2R(2), Int2R(-1), Rat(1, 2)>>,
    <<Int2R(-3), Zero, Int2R(4), Int2R(1)>>,
    <<Rat(5, 2), Int2R(-1), Zero, Int2R(3)>> }
EvaluationPoints == Knots \cup {Int2R(-1), Rat(1, 2), Rat(3, 2), Int2R(3)}
SplineRequests ==
  UNION { { [routine |-> "evaluate_spline", splines |-> coefficients,
             x_points |-> points, x |-> at] :
              coefficients \in Lists(SplineCoefficients, Len(points) - 1),
              at \in EvaluationPoints } :
          points \in SupportPoints }

CallEvaluateSpline ==
  /\ request.routine = "evaluate_spline" /\ outcome = Pending
  /\ outcome' = evaluate_spline(request.splines, request.x_points, request.x)
  /\ UNCHANGED <<request, besidesRoutines>>

(* ---- the driver calls one of the routines ---- *)
Requests ==
  OdeRequests \cup RombergRequests \cup RungeKuttaRequests \cup QuadratureRequests
    \cup SplineRequests

RoutineInit ==
  /\ request \in Requests /\ outcome = Pending
  /\ SolverIdle /\ KernelIdle /\ DiffIdle

RoutineNext ==
  \/ CallNthOrder
  \/ CallRomberg
  \/ CallRungeKutta \/ CallStageRungeKutta
  \/ CallRechteckregel \/ CallTrapezregel \/ CallSimpsonregel \/ CallGaussQuadratur
  \/ CallEvaluateSpline

RoutineSpec == RoutineInit /\ [][RoutineNext]_vars

(* ------------------------------------------------------------------ *)
(* Properties                                                         *)
(* ------------------------------------------------------------------ *)
LSSolvers == {"gauss_newton", "gauss_newton_damped"}
Last(h) == h[Len(h)]
Err(p) == norm(Residuals(problem, p, x_vals, y_vals))
Returned == pc = "returned"
Damped == solver = "gauss_newton_damped"
(* the parameters an outer iteration starts from, read off the history *)
ParamsAfter(h) == IF h = <<>> THEN guess_at_call
                  ELSE VAdd(Last(h).params, Last(h).step)

(* C1 as stated: whenever gauss_newton or gauss_newton_damped returns    *)
(* (early success, exhausted budget, stagnation) the returned history    *)
(* has as many records as outer iterations were started.                 *)
C1_HistoryCountsStarted ==
  (Returned /\ solver \in LSSolvers) => Len(result.history) = started

(* C1 amended: the returned history has one record per started outer     *)
(* iteration, except that the iteration in which gauss_newton_damped     *)
(* stagnates is started but not recorded (length = started - 1).         *)
C1_HistoryCountsRecorded ==
  (Returned /\ solver \in LSSolvers) =>
     Len(result.history) = IF exit_path = "stagnation" THEN started - 1 ELSE started

C1_Witness ==
  /\ Returned /\ Damped /\ exit_path = "stagnation"
  /\ started = 2 /\ Len(result.history) = 1

(* C2: every record of gauss_newton_damped has new_error < old_error,    *)
(* old_error being the error at the record's params and new_error the    *)
(* error at the accepted trial point params + step; params only ever     *)
(* moves to such an accepted point.                                      *)
C2_Monotone ==
  Damped =>
    /\ \A i \in 1..Len(iteration_history) :
         LET r == iteration_history[i]
         IN  /\ RLt(r.new_error, r.old_error)
             /\ r.old_error = Err(r.params)
             /\ r.new_error = Err(VAdd(r.params, r.step))
    /\ pc \in {"gnd_for", "gnd_trial"} => params = ParamsAfter(iteration_history)

C2_Witness ==
  /\ Damped /\ Len(iteration_history) = 2
  /\ iteration_history[1].damping_factor # One
  /\ params = ParamsAfter(iteration_history)

(* C3: when gauss_newton_damped stagnates it returns (does not raise)    *)
(* the parameters the iteration started with and the history without a   *)
(* record for that iteration; it stagnates exactly when none of the      *)
(* max_halving + 1 trial points has an error below old_error.            *)
NoTrialDescends ==
  \A j \in 0..max_halving :
     ~RLt(Err(TrialPoint(params, <<1, Pow2(j)>>, step)), old_error)

C3_Stagnation ==
  Damped =>
    /\ exit_path = "stagnation" =>
         /\ Returned /\ result.kind = "return"
         /\ NoTrialDescends
         /\ result.params = ParamsAfter(result.history)
         /\ result.history = iteration_history
         /\ Len(result.history) = started - 1
         /\ \A i \in 1..Len(result.history) : result.history[i].iteration = i - 1
    /\ pc = "gnd_accept" => ~NoTrialDescends

C3_Witness ==
  /\ Damped /\ exit_path = "stagnation" /\ max_halving = 1 /\ halving = 2
  /\ Len(result.history) = 1 /\ result.params # guess_at_call
  /\ trial_params # result.params

(* max_halving=8: the halving budget of the damped solvers *)
DefaultMaxHalving == 8

(* C4: every solver call stays within its budgets: at most               *)
(* max_iterations outer iterations are started, and a backtracking loop  *)
(* of a damped solver tries at most max_halving + 1 points               *)
(* (gauss_newton_damped: its argument; damped_newton, which has no such  *)
(* argument: the default 8) before it is left.                           *)
C4_WithinBudgets ==
  /\ started <= max_iterations
  /\ Damped => halving <= max_halving + 1
  /\ solver = "damped_newton" => trials <= DefaultMaxHalving + 1

(* C5: gauss_newton and gauss_newton_damped leave the caller's           *)
(* initial_guess array as it was when the call began, so a second solve  *)
(* given the same array starts from the same point.                      *)
C5_GuessUntouched ==
  solver \in LSSolvers => initial_guess = guess_at_call

(* the Gauss-Newton step computed at p, and whether the trial point with *)
(* damping 2^-j lowers the error there                                   *)
FullStep(p) == GaussNewtonStep(problem, p, x_vals, y_vals).x
TrialDescends(p, j) ==
  RLt(Err(TrialPoint(p, <<1, Pow2(j)>>, FullStep(p))), Err(p))

C6_State ==
  Damped =>
    /\ RLt(Zero, damping_factor) /\ ~RLt(One, damping_factor)
    /\ pc \in {"gnd_trial", "gnd_accept"} => damping_factor = <<1, Pow2(halving)>>
    /\ \A i \in 1..Len(iteration_history) :
         LET r == iteration_history[i]
         IN  \E j \in 0..max_halving :
               /\ r.damping_factor = <<1, Pow2(j)>>
               /\ TrialDescends(r.params, j)
               /\ \A m \in 0..(j - 1) : ~TrialDescends(r.params, m)

C6_Step ==
  (solver' = "gauss_newton_damped" /\ calls' = calls) =>
    /\ (pc = "gnd_for" /\ pc' = "gnd_trial") => damping_factor' = One
    /\ damping_factor' # damping_factor =>
         \/ pc = "gnd_for" /\ pc' = "gnd_trial"
         \/ pc = "gnd_trial" /\ pc' = "gnd_trial"
              /\ damping_factor' = RMul(damping_factor, <<1, 2>>)

(* C6: in gauss_newton_damped the damping factor is 1.0 when an outer    *)
(* iteration enters its backtracking loop, changes only by halving       *)
(* inside that loop, stays in (0, 1], and every recorded damping_factor  *)
(* is 2^-j, j <= max_halving being the number of rejected trial points.  *)
C6_DampingDiscipline == []C6_State /\ [][C6_Step]_vars

C6_Witness ==
  /\ Damped /\ pc = "gnd_trial" /\ halving = 0 /\ damping_factor = One
  /\ Len(iteration_history) = 1
  /\ iteration_history[1].damping_factor = <<1, 4>>

(* C7: a record of gauss_newton_damped whose full step does not lower    *)
(* the error has damping_factor < 1.0 and step = damping_factor * full   *)
(* step; a recorded damping_factor of 1.0 means the full step lowers it. *)
C7_DampedWhenNeeded ==
  Damped =>
    \A i \in 1..Len(iteration_history) :
      LET r == iteration_history[i]
          s == FullStep(r.params)
          fullStepLowers == RLt(Err(VAdd(r.params, s)), r.old_error)
      IN  /\ ~fullStepLowers =>
               /\ RLt(r.damping_factor, One)
               /\ r.step = VScale(r.damping_factor, s)
          /\ r.damping_factor = One => fullStepLowers

C7_Witness ==
  /\ Damped /\ Returned /\ Len(result.history) = 2
  /\ result.history[2].damping_factor = <<1, 2>>
  /\ ~TrialDescends(result.history[2].params, 0)

(* C8: gauss_newton appends the record (pre-update params, step, error)  *)
(* of an iteration before the stopping test; it returns params + step    *)
(* and the history with that record as soon as a step norm is below      *)
(* tolerance; otherwise it returns, without raising, the params after    *)
(* the last update and exactly max_iterations records.                   *)
C8_UndampedTermination ==
  solver = "gauss_newton" =>
    /\ pc = "gn_test" =>
         /\ Len(iteration_history) = started
         /\ Last(iteration_history) =
              [iteration |-> iteration, params |-> params,
               step |-> FullStep(params), error |-> Err(params)]
         /\ params = ParamsAfter(SubSeq(iteration_history, 1, started - 1))
    /\ \A i \in 1..Len(iteration_history) :
         NormBelow(iteration_history[i].step, tolerance) =>
           /\ i = Len(iteration_history)
           /\ pc = "gn_test" \/ exit_path = "early"
    /\ exit_path = "early" =>
         /\ result.kind = "return"
         /\ result.history = iteration_history
         /\ Len(result.history) = started
         /\ NormBelow(Last(result.history).step, tolerance)
         /\ result.params = VAdd(Last(result.history).params, Last(result.history).step)
    /\ exit_path = "exhausted" =>
         /\ result.kind = "return"
         /\ Len(result.history) = max_iterations
         /\ result.params = ParamsAfter(result.history)

C8_Witness ==
  /\ solver = "gauss_newton" /\ exit_path = "early"
  /\ Len(result.history) = 2
  /\ result.params # Last(result.history).params

RootSolvers == {"newton_method", "damped_newton"}
TestPasses(at) ==
  IF solver = "newton_method"
  THEN NormBelow(f(problem, at), tolerance)
  ELSE RLt(abs_sum(f(problem, at)), tolerance)

C9_Step ==
  (solver \in RootSolvers /\ calls' = calls) =>
    /\ (pc # "returned" /\ pc' = "returned") =>
         /\ TestPasses(x)
         /\ x' = VAdd(x, VScale(IF solver = "newton_method" THEN One ELSE lambda_,
                                delta_x'))
         /\ result'.kind = "return"
         /\ result'.params = x'
         /\ result'.iterations = k + 1
         /\ started' = k + 1
    /\ (k' = k + 1) => ~TestPasses(x)
    /\ (pc # "raised" /\ pc' = "raised" /\ exit_path' = "nonconvergence") =>
         /\ result'.kind = "raise" /\ result'.error = "ValueError"
         /\ k = max_iterations /\ started = max_iterations

(* C9: newton_method and damped_newton test convergence of iteration i   *)
(* on the norm of f at the point before the update, return the updated   *)
(* point with the count i + 1 when the test passes, and raise ValueError *)
(* when max_iter (k_max) iterations have gone by without a passing test. *)
C9_RootFinderOutcome == [][C9_Step]_vars

C9_Witness ==
  /\ solver = "damped_newton" /\ Returned
  /\ lambda_ # One
  /\ fx # f(problem, result.params)

(* C10: gauss_newton_damped returns early exactly when the norm of the   *)
(* damped step damping_factor * step is below tolerance, after the       *)
(* record has been appended, and then returns the trial point: the last  *)
(* record's params plus the last record's step.                          *)
C10_DampedEarlySuccess ==
  Damped =>
    /\ \A i \in 1..Len(iteration_history) :
         NormBelow(iteration_history[i].step, tolerance) =>
           /\ i = Len(iteration_history)
           /\ exit_path = "early"
    /\ exit_path = "early" =>
         LET r == Last(result.history)
         IN  /\ result.kind = "return"
             /\ result.history = iteration_history
             /\ r.step = VScale(r.damping_factor, FullStep(r.params))
             /\ NormBelow(r.step, tolerance)
             /\ result.params = VAdd(r.params, r.step)
             /\ result.params # r.params

C10_Witness ==
  /\ Damped /\ exit_path = "early"
  /\ Last(result.history).damping_factor # One
  /\ ~NormBelow(FullStep(Last(result.history).params), tolerance)

(* the linear solve of the outer iteration that is about to begin *)
LinearSolve ==
  IF solver \in LSSolvers
  THEN GaussNewtonStep(problem, params, x_vals, y_vals)
  ELSE solve_linear_system(Exact(Df(problem, x)), Exact(VNeg(f(problem, x))))

AtLoopHead ==
  \/ pc \in {"gn_for", "gnd_for"} /\ iteration < max_iterations
  \/ pc = "dn_for" /\ k < max_iterations

C14_Step ==
  (solver \in {"gauss_newton", "gauss_newton_damped", "damped_newton"}
     /\ calls' = calls) =>
    /\ (AtLoopHead /\ ~LinearSolve.ok) =>
         /\ pc' = "raised"
         /\ result' = [kind |-> "raise", params |-> <<>>, history |-> <<>>,
                       iterations |-> 0, error |-> LinearSolve.error]
         /\ started' = started + 1
         /\ iteration_history' = iteration_history
         /\ solver \in LSSolvers => Len(iteration_history') = started' - 1
         /\ UNCHANGED <<params, initial_guess, step, old_error, damping_factor,
                        trial_params, new_error, x, delta_x, lambda_, x_new, trials>>
    /\ (AtLoopHead /\ LinearSolve.ok) => pc' # "raised"
    /\ pc # "raised"

(* C14: when the linear solve raises in outer iteration k of            *)
(* gauss_newton, gauss_newton_damped or damped_newton, the exception     *)
(* leaves the solver at once: nothing is evaluated or appended after it, *)
(* the solve is not retried and no (params, history) is returned.        *)
C14_SingularIsFatal == [][C14_Step]_vars

C14_Witness ==
  /\ Damped /\ pc = "raised" /\ exit_path = "singular"
  /\ started = 2 /\ Len(iteration_history) = 1
  /\ result.kind = "raise"

(* a solve has converged at p: the Gauss-Newton step there is below     *)
(* tolerance                                                             *)
ConvergedAt(p) ==
  LET sol == GaussNewtonStep(problem, p, x_vals, y_vals)
  IN  sol.ok /\ NormBelow(sol.x, tolerance)

RestartedConverged ==
  solver \in LSSolvers /\ max_iterations >= 1 /\ ConvergedAt(guess_at_call)

(* C15 as stated: gauss_newton or gauss_newton_damped called with        *)
(* parameters at which a solve has converged (step below tolerance, a    *)
(* zero step included) returns in its first iteration through the        *)
(* stopping test, with a history of that one record.                     *)
C15_IdempotentOneRecord ==
  RestartedConverged =>
    /\ iteration = 0 /\ pc # "raised"
    /\ Returned =>
         /\ exit_path = "early"
         /\ Len(result.history) = 1
         /\ NormBelow(result.history[1].step, tolerance)

(* C15 amended: gauss_newton does so; gauss_newton_damped does so when   *)
(* one of its max_halving + 1 trial points lowers the error, and         *)
(* otherwise (always for a zero step) returns in that first iteration by *)
(* stagnation: the unchanged parameters and an empty history.            *)
C15_IdempotentUnlessStagnant ==
  RestartedConverged =>
    /\ iteration = 0 /\ pc # "raised"
    /\ Returned =>
         IF Damped /\ \A j \in 0..max_halving : ~TrialDescends(guess_at_call, j)
         THEN /\ exit_path = "stagnation"
              /\ result.history = <<>>
              /\ result.params = guess_at_call
         ELSE /\ exit_path = "early"
              /\ Len(result.history) = 1
              /\ result.history[1].params = guess_at_call
              /\ NormBelow(result.history[1].step, tolerance)
              /\ result.params = VAdd(guess_at_call, result.history[1].step)

C15_Witness ==
  /\ RestartedConverged /\ Damped /\ Returned /\ exit_path = "early"
  /\ Len(result.history) = 1
  /\ result.params # guess_at_call

IsPrefix(h1, h2) ==
  /\ Len(h1) <= Len(h2)
  /\ \A i \in 1..Len(h1) : h2[i] = h1[i]

C16_Step ==
  (solver' \in LSSolvers /\ calls' = calls) =>
    /\ IsPrefix(iteration_history, iteration_history')
    /\ Len(iteration_history') <= Len(iteration_history) + 1
    /\ Len(iteration_history') = Len(iteration_history) + 1 =>
         LET r == Last(iteration_history')
         IN  /\ r.iteration = iteration /\ Len(iteration_history) = iteration
             /\ r.params = params
             /\ r.step = IF Damped THEN VScale(damping_factor, step) ELSE step'
    /\ pc' = "returned" => result'.history = iteration_history'
    /\ pc = "returned" => result' = result

(* C16: the params and step stored in record k are copies: at every      *)
(* later point of the solve and after return record k holds the          *)
(* parameters iteration k started with and the step of iteration k,      *)
(* although gauss_newton updates params in place; records are only       *)
(* appended, never removed or reordered.                                 *)
C16_RecordsAreSnapshots == [][C16_Step]_vars

C16_Witness ==
  /\ solver = "gauss_newton" /\ Returned /\ aliased
  /\ Len(result.history) = 2
  /\ result.history[1].params = guess_at_call
  /\ result.history[2].params # guess_at_call
  /\ result.params # result.history[2].params
  /\ initial_guess = result.params

(* the outcome read off a returned history, max_iterations and tolerance *)
OutcomeOf(h, mi, tol) ==
  IF h # <<>> /\ NormBelow(Last(h).step, tol) THEN "early"
  ELSE IF Len(h) = mi THEN "exhausted"
  ELSE "stagnation"

(* C17: what gauss_newton_damped returns tells its outcome: converged    *)
(* early, ran to the iteration budget and stagnated differ in the        *)
(* history length relative to max_iterations or in whether the last      *)
(* record's step norm is below tolerance.                                *)
C17_OutcomeRecoverable ==
  (Damped /\ Returned) =>
    /\ exit_path \in {"early", "exhausted", "stagnation"}
    /\ exit_path = OutcomeOf(result.history, max_iterations, tolerance)

C17_Witness ==
  /\ Damped /\ Returned /\ exit_path = "stagnation"
  /\ max_iterations = 2 /\ Len(result.history) = 1
  /\ result.params # guess_at_call

(* ------------------------------------------------------------------ *)
(* Properties of the linear solvers                                   *)
(* ------------------------------------------------------------------ *)
RECURSIVE Pow10(_)
Pow10(n) == IF n = 0 THEN 1 ELSE 10 * Pow10(n - 1)

(* the determinant of the integer matrix M *)
IntDet(M) == RSub(RMul(M[1][1], M[2][2]), RMul(M[1][2], M[2][1]))

(* |det(A)| < 1e-14 for A = M * 10^(-e) with an integer matrix M *)
BelowThreshold(A) ==
  IF 2 * A.e >= SingularExponent
  THEN RLt(RAbs(IntDet(A.m)), Int2R(Pow10(2 * A.e - SingularExponent)))
  ELSE IntDet(A.m) = Zero

(* A x = b for x = sol.x * 10^(-sol.e) *)
MatVec(M, v) == [i \in DOMAIN M |-> Dot(M[i], v)]
Satisfies(A, sol, b) ==
  /\ MatVec(A.m, sol.x) = b.m
  /\ A.e + sol.e = b.e

(* C11: solve uses the closed form exactly for a (2, 2) matrix and the   *)
(* general solver otherwise; solve_2x2 raises ValueError exactly when    *)
(* |det(A)| < 1e-14, whatever b is, and returns the solution otherwise.  *)
C11_LinearSolver ==
  /\ routine \in {"solve", "solve_2x2"} /\ IsTwoByTwo(A_arg) =>
       IF BelowThreshold(A_arg)
       THEN solution = Raised("ValueError")
       ELSE solution.ok /\ Satisfies(A_arg, solution, b_arg)
  /\ routine = "solve" /\ ~IsTwoByTwo(A_arg) =>
       IF A_arg.m[1][1] = Zero
       THEN solution = Raised("LinAlgError")
       ELSE solution.ok /\ Satisfies(A_arg, solution, b_arg)

C11_Witness ==
  /\ routine = "solve"
  /\ A_arg = Exact(<< <<One, Int2R(2)>>, <<Int2R(2), Int2R(4)>> >>)
  /\ b_arg = Exact(<<Int2R(4), Int2R(9)>>)
  /\ solution = Raised("ValueError")

(* C12: for an integer matrix A with non-zero determinant and any b the  *)
(* closed-form solvers solve_2x2 and solve_linear_system return x with   *)
(* A x = b: det(A)*x0 = b0*A11 - b1*A01 and det(A)*x1 = A00*b1 - A10*b0. *)
C12_ClosedFormSolves ==
  (routine \in {"solve_2x2", "solve_linear_system"} /\ A_arg.e = 0
     /\ IntDet(A_arg.m) # Zero) =>
    LET M == A_arg.m
        v == b_arg.m
        det == IntDet(M)
    IN  /\ solution.ok
        /\ Satisfies(A_arg, solution, b_arg)
        /\ RMul(det, solution.x[1]) = RSub(RMul(v[1], M[2][2]), RMul(v[2], M[1][2]))
        /\ RMul(det, solution.x[2]) = RSub(RMul(M[1][1], v[2]), RMul(M[2][1], v[1]))

C12_Witness ==
  /\ routine = "solve_linear_system"
  /\ A_arg = Exact(<< <<Int2R(2), Zero>>, <<Zero, Int2R(3)>> >>)
  /\ b_arg = Exact(<<Int2R(4), Int2R(9)>>)
  /\ solution = Solved(<<Int2R(2), Int2R(3)>>, 0)

(* C13: solve_linear_system of the Newton scripts raises ValueError      *)
(* whenever |det(A)| < 1e-14, not only for a determinant of exactly 0.   *)
C13_NearSingularRejected ==
  (\/ routine = "solve_linear_system"
   \/ routine = "solve_with_method" /\ method \in {"2x2", "LGS"}) =>
    (BelowThreshold(A_arg) => solution = Raised("ValueError"))

(* a call leaves both of the caller's arrays as they were; the same      *)
(* routine called again on them gives what it gave before                *)
C18_Step ==
  /\ A_arg' = A_arg /\ b_arg' = b_arg
  /\ (routine' = earlier'.routine /\ method' = earlier'.method) =>
       solution' = earlier'.solution

Moved(p, i, d) == [p EXCEPT ![i] = RAdd(p[i], d)]

CentralDifference(callee, p, i, d) ==
  RDiv(RSub(Apply(callee, Moved(p, i, d)), Apply(callee, Moved(p, i, RNeg(d)))),
       RMul(Int2R(2), d))

(* C19: for each coordinate i compute_jacobian and partial_derivative    *)
(* evaluate func at exactly the two points that are the input point with *)
(* coordinate i moved by +delta and -delta, return the quotient          *)
(* (f(forward) - f(backward)) / (2 * delta), and leave the caller's      *)
(* point as it was, the integer-valued point (1, 2) included.            *)
C19_CentralDifference ==
  dpc = "returned" =>
    /\ point = point_at_call
    /\ IF diff_routine = "compute_jacobian"
       THEN /\ Len(evaluated) = Len(point) /\ Len(derivative) = Len(point)
            /\ \A i \in 1..Len(point) :
                 /\ evaluated[i] = <<Moved(point, i, delta), Moved(point, i, RNeg(delta))>>
                 /\ derivative[i] = CentralDifference(diff_routine, point, i, delta)
       ELSE /\ evaluated = << <<Moved(point, var_index, delta),
                                Moved(point, var_index, RNeg(delta))>> >>
            /\ derivative = <<CentralDifference(diff_routine, point, var_index, delta)>>

(* ------------------------------------------------------------------ *)
(* Properties of the float run of newton_method                       *)
(* ------------------------------------------------------------------ *)
(* the driver's call: newton_method(f, jacobian, np.array([4.0, 2.0])) *)
BenchmarkCall ==
  /\ problem = "cubic_float"
  /\ guess_at_call = <<FxInt(4), FxInt(2)>>
  /\ max_iterations = DefaultMaxIter /\ tolerance = DefaultTol

(* abs(p[i] - q[i]) <= tol in every coordinate *)
UpToTolerance(p, q, tol) ==
  \A i \in DOMAIN q : ~NLess(tol.m, FxSub(p[i], q[i]).m)

BenchmarkEnds(root) ==
  BenchmarkCall =>
    /\ pc # "raised"
    /\ k < DefaultMaxIter
    /\ Returned => /\ result.kind = "return"
                   /\ result.iterations <= DefaultMaxIter
                   /\ UpToTolerance(result.params, root, tolerance)

(* C20 as stated: from x0 = [4, 2] newton_method returns within the    *)
(* default budget and the returned point is [0, 0] up to the tolerance *)
C20_ConvergesToOrigin == BenchmarkEnds(<<FxInt(0), FxInt(0)>>)

(* C20 amended: from x0 = [4, 2] newton_method returns within the      *)
(* default budget and the returned point is the root [-2, 1] of f up   *)
(* to the tolerance                                                    *)
C20_ConvergesToOtherRoot == BenchmarkEnds(<<FxInt(-2), FxInt(1)>>)

C20_Witness ==
  /\ BenchmarkCall /\ Returned
  /\ result.iterations > 1
  /\ UpToTolerance(result.params, <<FxInt(-2), FxInt(1)>>, tolerance)
  /\ UpToTolerance(f_float(result.params), <<FxInt(0), FxInt(0)>>, tolerance)

(* ------------------------------------------------------------------ *)
(* Properties of the history as a sequence                            *)
(* ------------------------------------------------------------------ *)
Chains(h) ==
  \A i \in 1..Len(h) :
    /\ h[i].iteration = i - 1
    /\ i < Len(h) => h[i + 1].params = VAdd(h[i].params, h[i].step)

(* C23: in the history of gauss_newton and gauss_newton_damped record k *)
(* has iteration index k (0, 1, 2, ... without gaps or repeats), and    *)
(* the params of record k+1 are the params of record k plus the         *)
(* (accepted) step of record k.                                         *)
C23_RecordsChain ==
  solver \in LSSolvers =>
    /\ Chains(iteration_history)
    /\ Returned => Chains(result.history)

C23_Witness ==
  /\ Returned /\ solver = "gauss_newton"
  /\ Len(result.history) = 2
  /\ result.history[1].step # <<Zero, Zero>>
  /\ result.history[2].params # result.history[1].params

ErrorsChain(h) ==
  \A i \in 1..(Len(h) - 1) :
    /\ h[i + 1].old_error = h[i].new_error
    /\ RLt(h[i + 1].old_error, h[i].old_error)

(* C24: in the history of gauss_newton_damped the old_error of record   *)
(* k+1 equals the new_error of record k, so the recorded old_error      *)
(* values are strictly decreasing.                                      *)
C24_ErrorsChain ==
  Damped =>
    /\ ErrorsChain(iteration_history)
    /\ Returned => ErrorsChain(result.history)

C24_Witness ==
  /\ Returned /\ Damped
  /\ Len(result.history) = 2
  /\ result.history[2].old_error = result.history[1].new_error
  /\ result.history[1].damping_factor # One

(* ------------------------------------------------------------------ *)
(* Properties of solve_with_method                                    *)
(* ------------------------------------------------------------------ *)
SolvingMethods == {"2x2", "LU", "LGS"}

(* C25: for every 2x2 system with non-zero determinant solve_with_method *)
(* completes without an arithmetic error for the methods '2x2', 'LU'     *)
(* and 'LGS', and two calls on the same system with any two of these     *)
(* methods return the same solution.                                     *)
C25_MethodsInterchangeable ==
  ( /\ routine = "solve_with_method" /\ method \in SolvingMethods
    /\ IsTwoByTwo(A_arg) /\ Det2(A_arg).m # Zero )
  => /\ solution.ok
     /\ solution = solve_linear_system(A_arg, b_arg)
     /\ ( earlier.routine = "solve_with_method" /\ earlier.method \in SolvingMethods )
          => earlier.solution = solution

(* ------------------------------------------------------------------ *)
(* Properties of the numerical routines                               *)
(* ------------------------------------------------------------------ *)
Called(r) == request.routine = r /\ outcome # Pending

(* a_j of the equation, the coefficients being [a_n, ..., a_0] *)
Coefficient(coefficients, j) == coefficients[Len(coefficients) - j]

RECURSIVE LowerTerms(_, _, _)
(* a_(j-1) * y[j-1] + ... + a_0 * y[0] *)
LowerTerms(coefficients, y, j) ==
  IF j = 0 THEN Zero
  ELSE RAdd(LowerTerms(coefficients, y, j - 1),
            RMul(Coefficient(coefficients, j - 1), y[j]))

(* C21: for coefficients [a_n, ..., a_0] the system returned by          *)
(* nth_order_to_first_order has dydt[i] = y[i+1] in its first n-1        *)
(* components and -(a_(n-1)*y[n-1] + ... + a_0*y[0]) / a_n in its last:  *)
(* a_k multiplies y[k] and the division is by the first list element.    *)
C21_FirstOrderSystem ==
  Called("nth_order_to_first_order") =>
    LET c == request.coefficients
        y == request.y
        n == Len(c) - 1
    IN  outcome = PyList([i \in 1..n |->
                            IF i < n THEN y[i + 1]
                            ELSE RDiv(RNeg(LowerTerms(c, y, n)), Coefficient(c, n))])

(* C22: romberg_extrapolation returns a tuple of the complete levels x   *)
(* levels Romberg table and the final result, the bottom-right entry     *)
(* table[levels-1, levels-1].                                            *)
C22_ReturnsTableAndResult ==
  Called("romberg_extrapolation") =>
    LET table == romberg_table(request.f, request.a, request.b, request.levels)
    IN  outcome = PyTuple(<< NdArray(table),
                             PyFloat(table[request.levels][request.levels]) >>)

(* C26: with the classical 4-stage tableau s_stage_runge_kutta returns   *)
(* the same t_values and, in exact arithmetic, the same y_values as      *)
(* runge_kutta_method for the same f, t0, y0, t_end and n >= 1; both     *)
(* return n + 1 points with y_values[0] = y0.                            *)
C26_ClassicalTableauIsRK4 ==
  LET q == request.args
  IN  /\ ( Called("s_stage_runge_kutta") /\ request.tableau = "classical" /\ q.n >= 1 )
         => outcome = runge_kutta_method(q.f, q.t0, q.y0, q.t_end, q.n)
      /\ ( (Called("s_stage_runge_kutta") \/ Called("runge_kutta_method")) /\ q.n >= 1 )
         => /\ outcome.type = "tuple"
            /\ Len(outcome.items[1].items) = q.n + 1
            /\ Len(outcome.items[2].items) = q.n + 1
            /\ outcome.items[2].items[1] = q.y0

C26_Witness ==
  /\ Called("s_stage_runge_kutta") /\ request.tableau = "classical"
  /\ request.args.f = "product" /\ request.args.n = 2
  /\ request.args.t0 = Rat(-3, 2) /\ request.args.t_end = Rat(3, 2)
  /\ outcome.type = "tuple"
  /\ outcome.items[2].items[3] # outcome.items[2].items[2]

IsNumber(v) == v.type = "float"
IsPair(v) == v.type = "tuple" /\ Len(v.items) = 2 /\ \A i \in 1..2 : IsNumber(v.items[i])
Rejected(o) == o.result = PyRaise("ValueError")

(* the argument combinations the quadrature routines are to reject *)
InvalidArguments ==
  \/ request.routine = "simpsonregel" /\ request.n % 2 = 1
  \/ request.routine \in NewtonCotes /\ request.include_error /\ request.max_f = None
  \/ request.routine = "gauss_quadratur" /\ request.n \notin {1, 2, 3}

QuadratureCalled ==
  request.routine \in NewtonCotes \cup {"gauss_quadratur"} /\ outcome # Pending

(* C27: the quadrature routines raise ValueError for every odd n of      *)
(* simpsonregel (before f is evaluated), for include_error = True with   *)
(* the derivative bound None in rechteckregel / trapezregel /            *)
(* simpsonregel, and for every n outside {1, 2, 3} of gauss_quadratur;   *)
(* with other arguments they return a single number when include_error   *)
(* is False and a pair (integral, error bound) when it is True.          *)
C27_QuadratureArguments ==
  QuadratureCalled =>
    IF InvalidArguments
    THEN /\ Rejected(outcome)
         /\ (request.routine = "simpsonregel" /\ request.n % 2 = 1) => outcome.evals = 0
    ELSE IF request.routine \in NewtonCotes /\ request.include_error
         THEN IsPair(outcome.result)
         ELSE IsNumber(outcome.result)

(* C28 as stated: for ascending x_points evaluate_spline raises          *)
(* ValueError exactly when x lies outside [x_points[0], x_points[-1]].   *)
SplineCalled == Called("evaluate_spline")
FirstPoint == request.x_points[1]
LastPoint == request.x_points[Len(request.x_points)]
Outside == RLt(request.x, FirstPoint) \/ RLt(LastPoint, request.x)
C28_RaisesExactlyOutside ==
  SplineCalled => (outcome = PyRaise("ValueError") <=> Outside)

(* C28 amended: with at least two ascending support points the call      *)
(* raises ValueError exactly when x lies outside [x_points[0],           *)
(* x_points[-1]]; inside it returns the cubic of the first interval that *)
(* contains x at dx = x - x_points[i], which at x = x_points[0] is the   *)
(* coefficient a of the first interval; with a single support point it   *)
(* raises ValueError for every x.                                        *)
Containing ==
  {i \in 1..(Len(request.x_points) - 1) :
     /\ ~RLt(request.x, request.x_points[i])
     /\ ~RLt(request.x_points[i + 1], request.x)}
FirstContaining == CHOOSE i \in Containing : \A j \in Containing : i <= j
Horner(coefficients, dx) ==
  RAdd(coefficients[1],
       RMul(dx, RAdd(coefficients[2],
                     RMul(dx, RAdd(coefficients[3], RMul(dx, coefficients[4]))))))
C28_RaisesOutsideOfIntervals ==
  SplineCalled =>
    IF Len(request.x_points) < 2 \/ Outside
    THEN outcome = PyRaise("ValueError")
    ELSE /\ outcome = PyFloat(Horner(request.splines[FirstContaining],
                                     RSub(request.x, request.x_points[FirstContaining])))
         /\ request.x = FirstPoint => outcome = PyFloat(request.splines[1][1])

(* a call at the right end of the last of two intervals *)
C28_Witness ==
  /\ SplineCalled /\ Len(request.x_points) = 3
  /\ request.x = LastPoint /\ request.x_points[2] # LastPoint
  /\ outcome.type = "float"
(* a call at the left end *)
C28_WitnessLeftEnd ==
  /\ SplineCalled /\ Len(request.x_points) >= 2
  /\ request.x = FirstPoint /\ outcome = PyFloat(request.splines[1][1])

====
